---- MODULE Spec2Model ----
(***************************************************************************)
(* A model of the my-gantt planning tool: pools, projects, the week        *)
(* buckets, the pool utilization computed by the chart, by the worker and  *)
(* by the bulk-update form, and the date derivation of the project form.   *)
(*                                                                         *)
(* Numbers.  Hours are whole hours, allocations whole percents.  An        *)
(* allocation of p percent of an s-hour week is p*s hundredths of an hour, *)
(* so every sum of allocated hours is an exact integer count of            *)
(* hundredths ("centi-hours").  Figures rounded to one decimal are counted *)
(* in tenths.  Arithmetic is exact; the binary rounding of IEEE doubles is *)
(* not modelled.                                                           *)
(*                                                                         *)
(* Time.  An instant is a whole number of hours, UTC, counted from the     *)
(* midnight that starts a Sunday.  A date string "YYYY-MM-DD" is its day   *)
(* number; the empty string and an unparseable string are EmptyDate and    *)
(* BadDate.  The browser's zone is tz hours east of UTC (no DST).          *)
(***************************************************************************)
EXTENDS Integers, Sequences, FiniteSets, TLC

VARIABLES
  tz,          \* the browser's time zone, hours east of UTC
  now,         \* Date.now(), in hours
  projects,    \* the projects prop: a sequence of project records
  pools,       \* the pools prop: a sequence of pool records
  last,        \* the result computed last: who computed what from which arguments
  selectedWeekStart,   \* App: the week clicked in the chart, or NoWeek
  selectedPool,        \* BulkUpdateForm: the pool chosen, "" for none
  concurrentProjects,  \* BulkUpdateForm: the rows of the table
  formRev,             \* which ProjectForm is mounted: "current" or "earlier"
  form,                \* ProjectForm: the form state
  selectedWeekForAllocation,  \* ProjectForm: the week key chosen, NoKey for ''
  weeklyAllocationInput,      \* ProjectForm: the text of the Allocation (%) input
  overAllocationWarning,      \* ProjectForm: the memoized over-allocation advisory
  errors,                     \* ProjectForm: the fields validate() flagged
  selectedProjectIndex,       \* App: the index of the project being edited, NoIndex for null
  showProjectForm,            \* App: the project form is on screen
  utilizationCache,           \* ExportPanel.tsx: the entries of the chart's cache
  poolUtilizationCache,       \* BulkUpdateForm.tsx: the entries of the form's cache
  localStorage,               \* the items 'gantt-projects' and 'gantt-pools'
  exportPanel,                \* ExportPanel: the state of the import
  poolForm,                   \* PoolForm: the form state and its errors
  chartWorker                 \* GanttChart: the utilization worker and its messages

propVars == <<tz, now, projects, pools>>
bulkVars == <<selectedWeekStart, selectedPool, concurrentProjects>>
mountVars == <<selectedProjectIndex, showProjectForm>>
formVars == <<formRev, form, selectedWeekForAllocation, weeklyAllocationInput,
              overAllocationWarning, errors, selectedProjectIndex, showProjectForm>>
vars == <<tz, now, projects, pools, last, selectedWeekStart, selectedPool, concurrentProjects,
          formRev, form, selectedWeekForAllocation, weeklyAllocationInput,
          overAllocationWarning, errors, selectedProjectIndex, showProjectForm,
          utilizationCache, poolUtilizationCache,
          localStorage, exportPanel, poolForm, chartWorker>>
cacheVars == <<utilizationCache, poolUtilizationCache>>
panelVars == <<exportPanel, poolForm, chartWorker>>
extVars == <<localStorage, exportPanel, poolForm, chartWorker>>

\* JSON.stringify and JSON.parse: every value of the model is one JSON can
\* carry, so the text holds the value itself.
JSONstringify(value) == [valid |-> TRUE, json |-> value]
JSONparse(text) == text.json

\* localStorage after the two saving effects of App have run.
StorageOf(projs, ps) == [projects |-> JSONstringify(projs), pools |-> JSONstringify(ps)]

\* ExportPanel off the screen.  backupData and pendingImport hold <<>> for
\* null and <<data>> for a value.
ExportPanelIdle ==
  [importError |-> "", showConflictSummary |-> FALSE, conflictResults |-> <<>>,
   backupData |-> <<>>, importApplied |-> FALSE, pendingImport |-> <<>>,
   csvImportError |-> "", mounted |-> FALSE]

\* A field of PoolForm holds a number, or the text of an input: the decimal
\* digits of a natural number, or no character at all.
Num(n) == [isString |-> FALSE, n |-> n]
Text(n) == [isString |-> TRUE, n |-> n]
NoText == Text(0 - 1)

\* PoolForm's initialForm and no error.
poolInitialForm ==
  [name |-> "", weeklyHours |-> 40, standardWeekHours |-> Num(40), supportHours |-> Num(0),
   meetingHours |-> Num(0)]
PoolFormIdle == [form |-> poolInitialForm, errors |-> {}]

\* GanttChart before its worker has answered.
WorkerIdle ==
  [workerReady |-> FALSE, isCalculating |-> FALSE, cachedFutureWarnings |-> <<>>,
   inFlight |-> 0, posted |-> 0]

\* The state of App's storage and of the panels no action has touched.
ExtIdle ==
  /\ localStorage = StorageOf(projects, pools)
  /\ exportPanel = ExportPanelIdle
  /\ poolForm = PoolFormIdle
  /\ chartWorker = WorkerIdle

\* new UtilizationCache(), new PoolUtilizationCache(): no entry.
CachesEmpty == utilizationCache = {} /\ poolUtilizationCache = {}

-----------------------------------------------------------------------------
(* Bounds of the model *)

MaxProjects == 2
MaxBulkProjects == 2
MaxRows == 4
NumWeeks == 2
MaxDay == 110
MaxSpanDays == 9

-----------------------------------------------------------------------------
(* Dates *)

HoursPerDay == 24

\* The time value of an Invalid Date (NaN).
NaT == -100000

\* selectedWeekStart when no week is selected (null).
NoWeek == -200000

\* The date strings '' (unset) and one that Date cannot parse.
EmptyDate == -1
BadDate == -2

\* new Date(str): a date-only ISO string is midnight UTC of that day.
ParseDate(s) == IF s >= 0 THEN s * HoursPerDay ELSE NaT

\* a <= b and a >= b on Date objects: false as soon as one is invalid.
DateLE(a, b) == a # NaT /\ b # NaT /\ a <= b
DateGE(a, b) == a # NaT /\ b # NaT /\ a >= b

\* date.toISOString().split('T')[0]: the UTC day of the instant.
ISODate(t) == t \div HoursPerDay

\* date.getDay(): the local day of the week, 0 = Sunday.
getDay(t) == ((t + tz) \div HoursPerDay) % 7

\* date.setHours(0, 0, 0, 0): local midnight of the instant's local day.
LocalMidnight(t) == t - ((t + tz) % HoursPerDay)

\* date.setDate(date.getDate() + n).
AddDays(t, n) == t + n * HoursPerDay

getWeekStart(date) ==
  LET d == LocalMidnight(date)
  IN  AddDays(d, 0 - getDay(d))

-----------------------------------------------------------------------------
(* Statuses *)

Statuses == {"Not Started", "Development", "Testing", "Complete", "complete", "Completed"}

\* status.toLowerCase()
toLowerCase(s) ==
  CASE s = "Not Started" -> "not started"
    [] s = "Development" -> "development"
    [] s = "Testing"     -> "testing"
    [] s = "Complete"    -> "complete"
    [] s = "complete"    -> "complete"
    [] s = "Completed"   -> "completed"
    [] OTHER             -> s

\* lower.includes('complete')
includesComplete(lower) == lower \in {"complete", "completed"}

-----------------------------------------------------------------------------
(* Rounding and division *)

\* Math.round(h * 10) / 10 of h given in hundredths: the result in tenths.
\* Math.round rounds a half up.
Round1(centi) == (centi + 5) \div 10

\* Math.round((a / b) * 100 * 10) / 10 in tenths of a percent, b # 0.
RoundPct(a, b) ==
  IF b > 0 THEN (2000 * a + b) \div (2 * b)
           ELSE (0 - (2000 * a + b)) \div (0 - 2 * b)

\* (a / b) * 100 rounded to one decimal, as a JS number: a quotient by zero
\* is Infinity, and 0 / 0 is NaN.
Utilization(a, b) ==
  IF b # 0 THEN [kind |-> "num", v |-> RoundPct(a, b)]
  ELSE IF a = 0 THEN [kind |-> "NaN", v |-> 0]
  ELSE [kind |-> "Infinity", v |-> 0]

\* Sum of f[i] over i in 1..Len(f).
RECURSIVE SumSeq(_)
SumSeq(f) == IF f = <<>> THEN 0 ELSE Head(f) + SumSeq(Tail(f))

\* The JS idiom x || d on a number: d when x is 0 or missing.
OrElse(x, d) == IF x = 0 THEN d ELSE x

\* arr.map(f) on a sequence.
MapSeq(seq, F(_)) == [i \in 1..Len(seq) |-> F(seq[i])]

\* pools.find(p => p.name === poolName): the set holding the first match, or {}.
FindPool(ps, poolName) ==
  LET idx == {i \in 1..Len(ps) : ps[i].name = poolName}
  IN  IF idx = {} THEN {} ELSE {ps[CHOOSE i \in idx : \A j \in idx : i <= j]}

-----------------------------------------------------------------------------
(* The chart: src/src/ExportPanel.tsx, the GanttChart component *)

\* One ProcessedProject.  weeklyAllocations is not carried over.
ProcessOne(p) ==
  [ pool             |-> p.pool,
    startDate        |-> ParseDate(p.startDate),
    endDate          |-> ParseDate(p.targetDate),
    isActive         |-> ~includesComplete(toLowerCase(p.status)),
    weeklyAllocation |-> OrElse(p.weeklyAllocation, 0),
    status           |-> p.status,
    name             |-> p.name ]

preprocessProjects(projs) == MapSeq(projs, ProcessOne)

getActiveProjectsInWeek(processed, weekStart, weekEnd) ==
  LET Keep(p) == p.isActive /\ DateLE(p.startDate, weekEnd) /\ DateGE(p.endDate, weekStart)
  IN  SelectSeq(processed, Keep)

getCurrentWeekConcurrentProjects(projs, poolName, weekStart, weekEnd) ==
  LET Keep(p) == /\ p.pool = poolName
                 /\ p.isActive
                 /\ DateLE(p.startDate, weekEnd)
                 /\ DateGE(p.endDate, weekStart)
  IN  SelectSeq(preprocessProjects(projs), Keep)

\* The percentage the reduce takes for one concurrent project.
allocationPercent(proj) ==
  IF toLowerCase(proj.status) = "complete" THEN 0 ELSE OrElse(proj.weeklyAllocation, 0)

\* The reduce over the concurrent projects: allocated centi-hours, unrounded.
totalAllocatedOf(concurrent, pool) ==
  LET Hours(proj) == allocationPercent(proj) * OrElse(pool.standardWeekHours, 40)
  IN  SumSeq(MapSeq(concurrent, Hours))

\* What is returned for a pool name that no pool has.
NoPoolResult ==
  [totalAllocated |-> 0, poolHours |-> 0, utilization |-> [kind |-> "num", v |-> 0],
   isOverAllocated |-> FALSE]

\* The result record built from the unrounded total and the pool.
ResultOf(total, pool) ==
  LET reservedHours  == OrElse(pool.supportHours, 0) + OrElse(pool.meetingHours, 0)
      availableHours == pool.weeklyHours - reservedHours
  IN  [ totalAllocated  |-> Round1(total),
        poolHours       |-> pool.weeklyHours,
        availableHours  |-> 10 * availableHours,
        reservedHours   |-> 10 * reservedHours,
        utilization     |-> Utilization(total, 100 * availableHours),
        isOverAllocated |-> total > 100 * availableHours ]

\* calculatePoolUtilization on a cache miss.
calculatePoolUtilization(projs, ps, poolName, weekStart, weekEnd) ==
  LET found == FindPool(ps, poolName)
  IN  IF found = {} THEN NoPoolResult
      ELSE LET pool == CHOOSE p \in found : TRUE
               concurrent == getCurrentWeekConcurrentProjects(projs, poolName, weekStart, weekEnd)
           IN  ResultOf(totalAllocatedOf(concurrent, pool), pool)

\* getProjectsByPoolInWeek(...).get(poolName) || []
getProjectsByPoolInWeek(processed, weekStart, weekEnd, poolName) ==
  LET InPool(p) == p.pool = poolName
  IN  SelectSeq(getActiveProjectsInWeek(processed, weekStart, weekEnd), InPool)

\* The main-thread fallback used for the future weeks.
calculatePoolUtilizationFromProjects(projs, pool) ==
  LET totalAllocated == totalAllocatedOf(projs, pool)
      reservedHours  == OrElse(pool.supportHours, 0) + OrElse(pool.meetingHours, 0)
      availableHours == pool.weeklyHours - reservedHours
  IN  [ totalAllocated  |-> Round1(totalAllocated),
        poolHours       |-> pool.weeklyHours,
        availableHours  |-> 10 * availableHours,
        reservedHours   |-> 10 * reservedHours,
        utilization     |-> Utilization(totalAllocated, 100 * availableHours),
        isOverAllocated |-> totalAllocated > 100 * availableHours ]

-----------------------------------------------------------------------------
(* The worker: src/public/utilization-worker.js *)

\* new ProcessedProject(data)
WorkerProcessedProject(data) ==
  [ pool             |-> data.pool,
    startDate        |-> ParseDate(data.startDate),
    endDate          |-> ParseDate(data.targetDate),
    isActive         |-> ~includesComplete(toLowerCase(data.status)),
    weeklyAllocation |-> OrElse(data.weeklyAllocation, 0),
    status           |-> data.status,
    name             |-> data.name ]

WorkerPreprocessProjects(projs) == MapSeq(projs, WorkerProcessedProject)

WorkerGetActiveProjectsInWeek(processed, weekStart, weekEnd) ==
  LET Keep(p) == p.isActive /\ DateLE(p.startDate, weekEnd) /\ DateGE(p.endDate, weekStart)
  IN  SelectSeq(processed, Keep)

\* getProjectsByPoolInWeek(...).get(poolName) || []
WorkerGetProjectsByPoolInWeek(processed, weekStart, weekEnd, poolName) ==
  LET InPool(p) == p.pool = poolName
  IN  SelectSeq(WorkerGetActiveProjectsInWeek(processed, weekStart, weekEnd), InPool)

\* The reduce of the worker's calculatePoolUtilizationFromProjects.
WorkerTotalAllocated(projs, pool) ==
  LET Pct(proj) == IF toLowerCase(proj.status) = "complete" THEN 0
                   ELSE OrElse(proj.weeklyAllocation, 0)
      Hours(proj) == Pct(proj) * OrElse(pool.standardWeekHours, 40)
  IN  SumSeq(MapSeq(projs, Hours))

\* The worker's isOverAllocated taken against the pool's weekly hours.
WorkerUtilizationAgainstPoolHours(projs, pool) ==
  LET totalAllocated == WorkerTotalAllocated(projs, pool)
  IN  [ totalAllocated  |-> Round1(totalAllocated),
        poolHours       |-> pool.weeklyHours,
        utilization     |-> Utilization(totalAllocated, 100 * pool.weeklyHours),
        isOverAllocated |-> totalAllocated > 100 * pool.weeklyHours ]

WorkerCalculatePoolUtilizationFromProjects(projs, pool) ==
  LET totalAllocated == WorkerTotalAllocated(projs, pool)
      reservedHours  == OrElse(pool.supportHours, 0) + OrElse(pool.meetingHours, 0)
      availableHours == pool.weeklyHours - reservedHours
  IN  [ totalAllocated  |-> Round1(totalAllocated),
        poolHours       |-> pool.weeklyHours,
        availableHours  |-> 10 * availableHours,
        reservedHours   |-> 10 * reservedHours,
        utilization     |-> Utilization(totalAllocated, 100 * availableHours),
        isOverAllocated |-> totalAllocated > 100 * availableHours ]

-----------------------------------------------------------------------------
(* The chart of src/src/GanttChart.tsx, an earlier revision kept in the tree *)

getCurrentWeekConcurrentProjectsV1(projs, poolName, weekStart, weekEnd) ==
  LET Keep(p) == /\ p.pool = poolName
                 /\ ~includesComplete(toLowerCase(p.status))
                 /\ DateLE(ParseDate(p.startDate), weekEnd)
                 /\ DateGE(ParseDate(p.targetDate), weekStart)
  IN  SelectSeq(projs, Keep)

\* The reduce: every percent is taken of a 40-hour week.
totalAllocatedV1(concurrent) ==
  LET Hours(proj) == allocationPercent(proj) * 40
  IN  SumSeq(MapSeq(concurrent, Hours))

calculatePoolUtilizationV1(projs, ps, poolName, weekStart, weekEnd) ==
  LET found == FindPool(ps, poolName)
  IN  IF found = {} THEN NoPoolResult
      ELSE LET pool == CHOOSE p \in found : TRUE
               total == totalAllocatedV1(
                          getCurrentWeekConcurrentProjectsV1(projs, poolName, weekStart, weekEnd))
           IN  [ totalAllocated  |-> Round1(total),
                 poolHours       |-> pool.weeklyHours,
                 utilization     |-> Utilization(total, 100 * pool.weeklyHours),
                 isOverAllocated |-> total > 100 * pool.weeklyHours ]

-----------------------------------------------------------------------------
(* Inputs *)

Zones == {-6, 0, 6}

\* Monday noon UTC of week 1: a Monday in every zone of Zones.
MondayNoon == 8 * HoursPerDay + 12

\* The week buckets of the chart: local Sunday midnights, seven days apart.
WeekStartOf(k) == getWeekStart(AddDays(MondayNoon, 7 * (k - 1)))
WeekStarts == {WeekStartOf(k) : k \in 1..NumWeeks}

\* weekStart.getTime() + 6 * 24 * 60 * 60 * 1000
WeekEndOf(weekStart) == weekStart + 6 * HoursPerDay

\* The key of a week in weeklyAllocations: week.start.toISOString().split('T')[0]
WeekKey(weekStart) == ISODate(weekStart)

NoOverrides == <<>>

PoolRec(n, wh, sh, mh, swh) ==
  [name |-> n, weeklyHours |-> wh, supportHours |-> sh, meetingHours |-> mh,
   standardWeekHours |-> swh]

\* standardWeekHours 0 stands for a pool that has none.
DevPools == { PoolRec("Dev", 40, 5, 5, 35), PoolRec("Dev", 10, 5, 5, 0) }
QAPool == PoolRec("QA", 40, 0, 0, 40)

ProjectRec(nm, pl, sd, td, st, wa, was) ==
  [name |-> nm, pool |-> pl, startDate |-> sd, targetDate |-> td, status |-> st,
   weeklyAllocation |-> wa, weeklyAllocations |-> was]

Names == <<"P1", "P2", "P3", "P4", "P5">>

DatePairs == { <<7, 13>>, <<13, 20>>, <<EmptyDate, 14>>, <<8, BadDate>> }
UtilStatuses == {"Development", "Complete", "Completed"}
AllocShapes ==
  { <<50, NoOverrides>>, <<100, NoOverrides>>, <<50, (WeekKey(WeekStartOf(1)) :> 25)>> }

UtilShapes ==
  { ProjectRec("", "Dev", d[1], d[2], st, a[1], a[2]) :
      d \in DatePairs, st \in UtilStatuses, a \in AllocShapes }
  \cup { ProjectRec("", "QA", 7, 13, "Development", 100, NoOverrides) }

\* The lists of at most n projects drawn from shapes, the i-th named Names[i].
ProjectLists(shapes, n) ==
  LET Named(f) == [i \in DOMAIN f |-> [f[i] EXCEPT !.name = Names[i]]]
  IN  { Named(f) : f \in UNION { [1..k -> shapes] : k \in 0..n } }

\* selectedProjectIndex = null.
NoIndex == 0

\* selectedWeekForAllocation = '': no week chosen.
NoKey == EmptyDate

\* initialForm.  A missing weeklyAllocations is NoOverrides, a missing
\* autoRecalculated is FALSE.
initialForm ==
  [ name |-> "", pool |-> "", startDate |-> EmptyDate, targetDate |-> EmptyDate,
    estimatedHours |-> 0, status |-> "Not Started", weeklyAllocation |-> 0,
    weeklyAllocations |-> NoOverrides, autoRecalculated |-> FALSE ]

\* getOverAllocationWarning returned null.
NoWarning == [severity |-> "none"]

\* The project form is not on screen.
FormNotMounted ==
  /\ formRev = "current"
  /\ form = initialForm
  /\ selectedWeekForAllocation = NoKey
  /\ weeklyAllocationInput = ""
  /\ overAllocationWarning = NoWarning
  /\ errors = {}
  /\ selectedProjectIndex = NoIndex
  /\ showProjectForm = FALSE

-----------------------------------------------------------------------------
(* The utilization functions applied to bounded inputs *)

NoResult == [fn |-> "none"]

InitUtil ==
  /\ tz \in Zones
  /\ now = MondayNoon
  /\ CachesEmpty
  /\ pools \in { <<dev, QAPool>> : dev \in DevPools }
  /\ projects \in ProjectLists(UtilShapes, MaxProjects)
  /\ last = NoResult
  /\ selectedWeekStart = NoWeek
  /\ selectedPool = ""
  /\ concurrentProjects = <<>>
  /\ FormNotMounted
  /\ ExtIdle

QueryPools == {"Dev", "Ghost"}

\* The chart asks for the utilization of a pool in a week.
ChartCalc(poolName, weekStart) ==
  /\ last' = [fn |-> "calculatePoolUtilization", pool |-> poolName, week |-> weekStart,
              res |-> calculatePoolUtilization(projects, pools, poolName, weekStart,
                                               WeekEndOf(weekStart))]
  /\ UNCHANGED <<propVars, extVars, bulkVars, formVars, cacheVars>>

\* The same request to the chart of src/src/GanttChart.tsx.
ChartCalcV1(poolName, weekStart) ==
  /\ last' = [fn |-> "calculatePoolUtilizationV1", pool |-> poolName, week |-> weekStart,
              res |-> calculatePoolUtilizationV1(projects, pools, poolName, weekStart,
                                                 WeekEndOf(weekStart))]
  /\ UNCHANGED <<propVars, extVars, bulkVars, formVars, cacheVars>>

\* One step of the main-thread getFutureOverAllocationWarnings: a pool of the
\* list in one week.
FutureCalc(i, weekStart) ==
  /\ last' = [fn |-> "calculatePoolUtilizationFromProjects", pool |-> pools[i].name,
              week |-> weekStart,
              res |-> calculatePoolUtilizationFromProjects(
                        getProjectsByPoolInWeek(preprocessProjects(projects), weekStart,
                                                WeekEndOf(weekStart), pools[i].name),
                        pools[i])]
  /\ UNCHANGED <<propVars, extVars, bulkVars, formVars, cacheVars>>

\* The same step in the worker.
WorkerCalc(i, weekStart) ==
  /\ last' = [fn |-> "worker", pool |-> pools[i].name, week |-> weekStart,
              res |-> WorkerCalculatePoolUtilizationFromProjects(
                        WorkerGetProjectsByPoolInWeek(WorkerPreprocessProjects(projects),
                                                      weekStart, WeekEndOf(weekStart),
                                                      pools[i].name),
                        pools[i])]
  /\ UNCHANGED <<propVars, extVars, bulkVars, formVars, cacheVars>>

NextUtil ==
  \/ \E poolName \in QueryPools, w \in WeekStarts : ChartCalc(poolName, w)
  \/ \E poolName \in QueryPools, w \in WeekStarts : ChartCalcV1(poolName, w)
  \/ \E i \in {1}, w \in WeekStarts : FutureCalc(i, w)
  \/ \E i \in {1}, w \in WeekStarts : WorkerCalc(i, w)

SpecUtil == InitUtil /\ [][NextUtil]_vars

-----------------------------------------------------------------------------
(* The bulk-update form: src/src/BulkUpdateForm.tsx *)

\* One element of processedProjects.
BulkProcessOne(project) ==
  [ pool             |-> project.pool,
    startDate        |-> ParseDate(project.startDate),
    endDate          |-> ParseDate(project.targetDate),
    isActive         |-> ~includesComplete(toLowerCase(project.status)),
    weeklyAllocation |-> OrElse(project.weeklyAllocation, 0),
    name             |-> project.name ]

processedProjects(projs) == MapSeq(projs, BulkProcessOne)

\* date.setHours(23, 59, 59, 999).  Every instant of the model is a whole
\* hour, and a whole hour is at or before 23:59:59.999 exactly when it is at
\* or before 23:00 of that day.
EndOfDay(t) == LocalMidnight(t) + (HoursPerDay - 1)

getCurrentWeekDates(selWeekStart, today) ==
  IF selWeekStart # NoWeek
  THEN [startOfWeek |-> selWeekStart, endOfWeek |-> AddDays(selWeekStart, 6)]
  ELSE LET startOfWeek == LocalMidnight(AddDays(today, 0 - getDay(today)))
       IN  [startOfWeek |-> startOfWeek, endOfWeek |-> EndOfDay(AddDays(startOfWeek, 6))]

\* The effect that initializes concurrentProjects.
InitConcurrent(projs, selPool, selWeekStart, today) ==
  IF selPool = "" THEN <<>>
  ELSE LET week == getCurrentWeekDates(selWeekStart, today)
           Keep(project) == /\ project.pool = selPool
                            /\ DateLE(project.startDate, week.endOfWeek)
                            /\ DateGE(project.endDate, week.startOfWeek)
                            /\ project.isActive
           Row(project) == [ name              |-> project.name,
                             currentAllocation |-> project.weeklyAllocation,
                             newAllocation     |-> project.weeklyAllocation,
                             isActive          |-> project.weeklyAllocation > 0 ]
       IN  MapSeq(SelectSeq(processedProjects(projs), Keep), Row)

calculateTotalAllocation(rows) ==
  LET Active(cp) == cp.isActive
      Pct(cp) == cp.newAllocation
  IN  SumSeq(MapSeq(SelectSeq(rows, Active), Pct))

NoBulkResult == [totalAllocated |-> 0, poolHours |-> 0, utilization |-> [kind |-> "num", v |-> 0]]

\* getPoolUtilization on a cache miss.  Fields a result lacks are undefined.
getPoolUtilization(selPool, rows, ps) ==
  IF selPool = "" \/ FindPool(ps, selPool) = {} THEN NoBulkResult
  ELSE LET pool == CHOOSE p \in FindPool(ps, selPool) : TRUE
           totalAllocated == calculateTotalAllocation(rows)
           utilization    == totalAllocated * OrElse(pool.standardWeekHours, 40)
           reservedHours  == OrElse(pool.supportHours, 0) + OrElse(pool.meetingHours, 0)
           availableHours == pool.weeklyHours - reservedHours
       IN  [ totalAllocated |-> Round1(utilization),
             poolHours      |-> pool.weeklyHours,
             availableHours |-> 10 * availableHours,
             reservedHours  |-> 10 * reservedHours,
             utilization    |-> Utilization(utilization, 100 * availableHours) ]

\* const isOverAllocated = totalAllocated > (availableHours || 0)
BulkIsOverAllocated(selPool, rows, ps) ==
  LET r == getPoolUtilization(selPool, rows, ps)
      available == IF "availableHours" \in DOMAIN r THEN r.availableHours ELSE 0
  IN  r.totalAllocated > available

\* The Hours cell of a row, in tenths of an hour.
HoursCell(cp) == IF cp.isActive THEN Round1(cp.newAllocation * 40) ELSE 0

\* The summary, the table and the buttons are rendered.
TableShown == selectedPool # "" /\ Len(concurrentProjects) > 0

RowNames == {concurrentProjects[i].name : i \in 1..Len(concurrentProjects)}

\* The pool select changes; the effect rebuilds the rows.
SetSelectedPool(poolName) ==
  /\ selectedPool' = poolName
  /\ concurrentProjects' = InitConcurrent(projects, poolName, selectedWeekStart, now)
  /\ UNCHANGED <<propVars, extVars, last, selectedWeekStart, formVars, cacheVars>>

\* A week label of the chart is clicked: App.handleWeekSelect; the effect
\* rebuilds the rows.
handleWeekSelect(weekStart) ==
  /\ selectedWeekStart' = weekStart
  /\ concurrentProjects' = InitConcurrent(projects, selectedPool, weekStart, now)
  /\ UNCHANGED <<propVars, extVars, last, selectedPool, formVars, cacheVars>>

handleAllocationChange(projectName, newAllocation) ==
  /\ TableShown
  /\ \E i \in 1..Len(concurrentProjects) :
        concurrentProjects[i].name = projectName /\ concurrentProjects[i].isActive
  /\ concurrentProjects' =
        [i \in 1..Len(concurrentProjects) |->
           IF concurrentProjects[i].name = projectName
           THEN [concurrentProjects[i] EXCEPT !.newAllocation = newAllocation]
           ELSE concurrentProjects[i]]
  /\ UNCHANGED <<propVars, extVars, last, selectedWeekStart, selectedPool, formVars, cacheVars>>

handleToggleActive(projectName) ==
  /\ TableShown
  /\ projectName \in RowNames
  /\ concurrentProjects' =
        [i \in 1..Len(concurrentProjects) |->
           LET cp == concurrentProjects[i]
           IN  IF cp.name = projectName
               THEN [cp EXCEPT !.isActive = ~cp.isActive,
                               !.newAllocation = IF cp.isActive THEN 0
                                                 ELSE cp.currentAllocation]
               ELSE cp]
  /\ UNCHANGED <<propVars, extVars, last, selectedWeekStart, selectedPool, formVars, cacheVars>>

\* prev.map((cp, index) => ...): index counts from 0 through the whole list.
evenDistribution(rows) ==
  LET n == Cardinality({i \in 1..Len(rows) : rows[i].isActive})
  IN  IF n = 0 THEN rows
      ELSE LET evenAllocation == 100 \div n
               remainder      == 100 % n
           IN  [i \in 1..Len(rows) |->
                  IF ~rows[i].isActive THEN rows[i]
                  ELSE [rows[i] EXCEPT !.newAllocation =
                          IF i - 1 < remainder THEN evenAllocation + 1
                          ELSE evenAllocation]]

handleDistributeEvenly ==
  /\ TableShown
  /\ concurrentProjects' = evenDistribution(concurrentProjects)
  /\ UNCHANGED <<propVars, extVars, last, selectedWeekStart, selectedPool, formVars, cacheVars>>

\* handleSave and App.handleBulkUpdateSave: the new allocations are written
\* to the projects, the tab changes and the form is unmounted.
updatedProjects(projs, rows) ==
  [i \in 1..Len(projs) |->
     LET hit == {j \in 1..Len(rows) : rows[j].name = projs[i].name}
     IN  IF hit = {} THEN projs[i]
         ELSE [projs[i] EXCEPT !.weeklyAllocation =
                 rows[CHOOSE j \in hit : \A k \in hit : j <= k].newAllocation]]

handleSave ==
  /\ TableShown
  /\ ~BulkIsOverAllocated(selectedPool, concurrentProjects, pools)
  /\ projects' = updatedProjects(projects, concurrentProjects)
  /\ selectedPool' = ""
  /\ concurrentProjects' = <<>>
  /\ localStorage' = StorageOf(projects', pools)
  /\ UNCHANGED <<tz, now, pools, panelVars, last, selectedWeekStart, formVars, cacheVars>>

AllocInputs == {0, 73, 100}

BulkPools == { PoolRec("Dev", 37, 5, 5, 37), PoolRec("Dev", 40, 5, 5, 0) }

BulkShapes ==
  { ProjectRec("", "Dev", 7, 13, "Development", 50, NoOverrides),
    ProjectRec("", "Dev", 13, 20, "Development", 0, NoOverrides),
    ProjectRec("", "Dev", 14, 20, "Development", 50, NoOverrides),
    ProjectRec("", "Dev", 7, 13, "Complete", 50, NoOverrides),
    ProjectRec("", "Dev", EmptyDate, 14, "Development", 50, NoOverrides),
    ProjectRec("", "QA", 7, 13, "Development", 100, NoOverrides) }

InitBulk ==
  /\ tz \in Zones
  /\ now = MondayNoon
  /\ CachesEmpty
  /\ pools \in { <<dev, QAPool>> : dev \in BulkPools }
  /\ projects \in ProjectLists(BulkShapes, MaxBulkProjects)
  /\ last = NoResult
  /\ selectedWeekStart = NoWeek
  /\ selectedPool = ""
  /\ concurrentProjects = <<>>
  /\ FormNotMounted
  /\ ExtIdle

NextBulk ==
  \/ \E i \in 1..Len(pools) : SetSelectedPool(pools[i].name)
  \/ SetSelectedPool("")
  \/ \E w \in {NoWeek, WeekStartOf(1)} : handleWeekSelect(w)
  \/ \E nm \in RowNames, a \in AllocInputs : handleAllocationChange(nm, a)
  \/ \E nm \in RowNames : handleToggleActive(nm)
  \/ handleDistributeEvenly
  \/ handleSave

SpecBulk == InitBulk /\ [][NextBulk]_vars

\* The form on longer tables: up to MaxRows projects of one pool in the
\* current week.
RowShapes ==
  { ProjectRec("", "Dev", 7, 13, "Development", 50, NoOverrides) }

InitRows ==
  /\ tz = 0
  /\ now = MondayNoon
  /\ CachesEmpty
  /\ pools = <<PoolRec("Dev", 40, 5, 5, 0), QAPool>>
  /\ projects \in ProjectLists(RowShapes, MaxRows)
  /\ last = NoResult
  /\ selectedWeekStart = NoWeek
  /\ selectedPool = ""
  /\ concurrentProjects = <<>>
  /\ FormNotMounted
  /\ ExtIdle

SpecRows == InitRows /\ [][NextBulk]_vars

\* App.handleBulkUpdateSave, on projects that carry lastModified: every
\* project of the list the form hands over gets the time of the save.
projectsWithTimestamps(updated, instant) ==
  [i \in 1..Len(updated) |-> [updated[i] EXCEPT !.lastModified = instant]]

\* Save on such projects: BulkUpdateForm.handleSave, and through onSave
\* App.handleBulkUpdateSave.
handleBulkUpdateSave ==
  /\ TableShown
  /\ ~BulkIsOverAllocated(selectedPool, concurrentProjects, pools)
  /\ projects' = projectsWithTimestamps(updatedProjects(projects, concurrentProjects), now)
  /\ selectedPool' = ""
  /\ concurrentProjects' = <<>>
  /\ localStorage' = StorageOf(projects', pools)
  /\ UNCHANGED <<tz, now, pools, panelVars, last, selectedWeekStart, formVars, cacheVars>>

\* Projects with lastModified, some of one name in different pools.
Stamped(nm, pl, sd, td, st, wa, lastModified) ==
  ProjectRec(nm, pl, sd, td, st, wa, NoOverrides) @@ [lastModified |-> lastModified]

NamedLists ==
  { << Stamped("P1", "Dev", 7, 13, "Development", 50, lm),
       Stamped(nm, "QA", 7, 13, "Development", 100, lm),
       Stamped("P3", "Dev", 7, 13, st, 25, lm) >> :
      nm \in {"P1", "P2"}, st \in {"Development", "Complete"}, lm \in {100, MondayNoon} }

InitNames ==
  /\ tz = 0
  /\ now = MondayNoon
  /\ CachesEmpty
  /\ pools = <<PoolRec("Dev", 40, 5, 5, 0), QAPool>>
  /\ projects \in NamedLists
  /\ last = NoResult
  /\ selectedWeekStart = NoWeek
  /\ selectedPool = ""
  /\ concurrentProjects = <<>>
  /\ FormNotMounted
  /\ ExtIdle

NextNames ==
  \/ \E i \in 1..Len(pools) : SetSelectedPool(pools[i].name)
  \/ \E w \in {NoWeek, WeekStartOf(1)} : handleWeekSelect(w)
  \/ \E nm \in RowNames, a \in AllocInputs : handleAllocationChange(nm, a)
  \/ \E nm \in RowNames : handleToggleActive(nm)
  \/ handleDistributeEvenly
  \/ handleBulkUpdateSave

SpecNames == InitNames /\ [][NextNames]_vars

-----------------------------------------------------------------------------
(* The project form: src/src/ErrorBoundary.tsx (the ProjectForm component)  *)
(* and its earlier revision src/src/ProjectForm.tsx                         *)

\* Math.ceil(a / b) for a >= 0, b > 0.
CeilDiv(a, b) == (a + b - 1) \div b

\* selectedPool?.standardWeekHours || 40
FormStandardWeek(f, ps) ==
  LET found == FindPool(ps, f.pool)
  IN  IF found = {} THEN 40
      ELSE OrElse((CHOOSE q \in found : TRUE).standardWeekHours, 40)

\* weeksNeeded = estimatedHours / ((allocation / 100) * standardWeekHours);
\* workDaysNeeded = Math.ceil(weeksNeeded * 5)
workDaysNeeded(estimatedHours, allocation, standardWeekHours) ==
  CeilDiv(500 * estimatedHours, allocation * standardWeekHours)

\* The earlier revision: Math.ceil(estimatedHours / availableHoursPerWeek)
workDaysNeededV1(estimatedHours, allocation, standardWeekHours) ==
  CeilDiv(100 * estimatedHours, allocation * standardWeekHours)

\* Both revisions carry the same addWorkDays and subtractWorkDays.
RECURSIVE addWorkDays(_, _)
addWorkDays(startDate, workDays) ==
  IF workDays <= 0 THEN startDate
  ELSE LET currentDate == AddDays(startDate, 1)
       IN  IF getDay(currentDate) # 0 /\ getDay(currentDate) # 6
           THEN addWorkDays(currentDate, workDays - 1)
           ELSE addWorkDays(currentDate, workDays)

\* subtractWorkDays skipping Saturdays only.
RECURSIVE subtractWorkDaysCountingSundays(_, _)
subtractWorkDaysCountingSundays(endDate, workDays) ==
  IF workDays <= 0 THEN endDate
  ELSE LET currentDate == AddDays(endDate, 0 - 1)
       IN  IF getDay(currentDate) # 6
           THEN subtractWorkDaysCountingSundays(currentDate, workDays - 1)
           ELSE subtractWorkDaysCountingSundays(currentDate, workDays)

RECURSIVE subtractWorkDays(_, _)
subtractWorkDays(endDate, workDays) ==
  IF workDays <= 0 THEN endDate
  ELSE LET currentDate == AddDays(endDate, 0 - 1)
       IN  IF getDay(currentDate) # 0 /\ getDay(currentDate) # 6
           THEN subtractWorkDays(currentDate, workDays - 1)
           ELSE subtractWorkDays(currentDate, workDays)

\* The while loop of countWorkDays.
RECURSIVE CountWeekdaysFrom(_, _)
CountWeekdaysFrom(currentDate, endDate) ==
  IF DateLE(currentDate, endDate)
  THEN (IF getDay(currentDate) >= 1 /\ getDay(currentDate) <= 5 THEN 1 ELSE 0)
         + CountWeekdaysFrom(AddDays(currentDate, 1), endDate)
  ELSE 0

\* countWorkDays leaving the end date out.
RECURSIVE countWorkDaysBeforeEnd(_, _)
countWorkDaysBeforeEnd(startDate, endDate) ==
  IF DateLE(startDate, endDate) /\ startDate # endDate
  THEN (IF getDay(startDate) >= 1 /\ getDay(startDate) <= 5 THEN 1 ELSE 0)
         + countWorkDaysBeforeEnd(AddDays(startDate, 1), endDate)
  ELSE 0

countWorkDays(startDate, endDate) ==
  IF startDate # NaT /\ endDate # NaT /\ startDate > endDate THEN 0
  ELSE CountWeekdaysFrom(startDate, endDate)

\* "Actual Duration (from dates)": the work days the form shows.
actualDuration(f) == countWorkDays(ParseDate(f.startDate), ParseDate(f.targetDate))

\* The form after handleChange({name, value}); swh is the standard week of
\* the pool selected at the time of the event.
NewFormOnChange(f, name, value, swh) ==
  LET newForm == [f EXCEPT ![name] = value]
  IN  IF /\ name = "startDate" /\ value # EmptyDate /\ f.targetDate = EmptyDate
         /\ f.estimatedHours > 0 /\ f.weeklyAllocation > 0
      THEN [newForm EXCEPT !.targetDate =
              ISODate(addWorkDays(ParseDate(value),
                        workDaysNeeded(f.estimatedHours, f.weeklyAllocation, swh)))]
      ELSE IF /\ name = "targetDate" /\ value # EmptyDate /\ f.startDate = EmptyDate
              /\ f.estimatedHours > 0 /\ f.weeklyAllocation > 0
      THEN [newForm EXCEPT !.startDate =
              ISODate(subtractWorkDays(ParseDate(value),
                        workDaysNeeded(f.estimatedHours, f.weeklyAllocation, swh)))]
      ELSE IF /\ name = "weeklyAllocation" /\ f.startDate # EmptyDate
              /\ f.estimatedHours > 0 /\ value > 0
      THEN [newForm EXCEPT !.targetDate =
              ISODate(addWorkDays(ParseDate(f.startDate),
                        workDaysNeeded(f.estimatedHours, value, swh))),
                           !.autoRecalculated = TRUE]
      ELSE IF name = "targetDate"
      THEN [newForm EXCEPT !.autoRecalculated = FALSE]
      ELSE newForm

\* The same in src/src/ProjectForm.tsx.
NewFormOnChangeV1(f, name, value, swh) ==
  LET newForm == [f EXCEPT ![name] = value]
  IN  IF /\ name = "startDate" /\ value # EmptyDate /\ f.targetDate = EmptyDate
         /\ f.estimatedHours > 0 /\ f.weeklyAllocation > 0
      THEN [newForm EXCEPT !.targetDate =
              ISODate(addWorkDays(ParseDate(value),
                        workDaysNeededV1(f.estimatedHours, f.weeklyAllocation, swh)))]
      ELSE IF /\ name = "targetDate" /\ value # EmptyDate /\ f.startDate = EmptyDate
              /\ f.estimatedHours > 0 /\ f.weeklyAllocation > 0
      THEN [newForm EXCEPT !.startDate =
              ISODate(subtractWorkDays(ParseDate(value),
                        workDaysNeededV1(f.estimatedHours, f.weeklyAllocation, swh)))]
      ELSE newForm

\* The work days a Recalc click moves by, in the mounted revision.
RecalcWorkDays ==
  IF formRev = "current"
  THEN workDaysNeeded(form.estimatedHours, form.weeklyAllocation,
                      FormStandardWeek(form, pools))
  ELSE workDaysNeededV1(form.estimatedHours, form.weeklyAllocation,
                        FormStandardWeek(form, pools))

getWeeklyAllocation(project, weekStart) ==
  LET weekKey == ISODate(weekStart)
  IN  IF weekKey \in DOMAIN project.weeklyAllocations
      THEN project.weeklyAllocations[weekKey]
      ELSE OrElse(project.weeklyAllocation, 0)

\* Number.prototype.toString and parseFloat on the numbers and texts the
\* Allocation (%) input sees.
NumberToString(n) ==
  CASE n = 0 -> "0" [] n = 25 -> "25" [] n = 50 -> "50" [] n = 100 -> "100"
    [] n = 150 -> "150"

parseFloat(str) ==
  CASE str = "0" -> 0 [] str = "25" -> 25 [] str = "50" -> 50 [] str = "100" -> 100
    [] str = "150" -> 150

\* The effect that pre-populates the Allocation (%) input.
Prefill(f, weekKey) ==
  IF weekKey # NoKey THEN NumberToString(getWeeklyAllocation(f, ParseDate(weekKey)))
  ELSE ""

RECURSIVE WeeksFrom(_, _)
WeeksFrom(current, endDate) ==
  IF DateLE(current, endDate)
  THEN <<current>> \o WeeksFrom(AddDays(current, 7), endDate)
  ELSE <<>>

\* getAvailableWeeks: the week starts offered by the Week select.
getAvailableWeeks(f) ==
  IF f.startDate = EmptyDate \/ f.targetDate = EmptyDate THEN <<>>
  ELSE IF ParseDate(f.startDate) = NaT THEN <<>>
  ELSE WeeksFrom(getWeekStart(ParseDate(f.startDate)), ParseDate(f.targetDate))

AvailableWeekKeys(f) ==
  {ISODate(getAvailableWeeks(f)[i]) : i \in 1..Len(getAvailableWeeks(f))}

\* otherProjectsInPool of getOverAllocationWarning.
otherProjectsInPool(f, projs) ==
  LET Keep(p) == /\ p.pool = f.pool
                 /\ p.name # f.name
                 /\ p.status # "Complete"
                 /\ OrElse(p.weeklyAllocation, 0) > 0
  IN  SelectSeq(projs, Keep)

\* totalAllocation of getOverAllocationWarning, in centi-hours.
advisoryTotalAllocation(f, projs, swh) ==
  LET Hours(p) == OrElse(p.weeklyAllocation, 0) * swh
  IN  SumSeq(MapSeq(otherProjectsInPool(f, projs), Hours)) + f.weeklyAllocation * swh

\* getOverAllocationWarning: the severity, the total the details quote (in
\* centi-hours) and currentProjects; NoWarning for null.
getOverAllocationWarning(f, projs, ps) ==
  IF f.pool = "" \/ f.weeklyAllocation <= 0 THEN NoWarning
  ELSE IF FindPool(ps, f.pool) = {} THEN NoWarning
  ELSE IF f.status # "Development" /\ f.status # "Testing" THEN NoWarning
  ELSE LET pool == CHOOSE q \in FindPool(ps, f.pool) : TRUE
           totalAllocation == advisoryTotalAllocation(f, projs, FormStandardWeek(f, ps))
           reservedHours   == OrElse(pool.supportHours, 0) + OrElse(pool.meetingHours, 0)
           availableHours  == 100 * (pool.weeklyHours - reservedHours)
           warning(sev)    == [severity |-> sev, totalAllocation |-> totalAllocation,
                               currentProjects |-> Len(otherProjectsInPool(f, projs))]
       IN  IF totalAllocation > availableHours THEN warning("high")
           ELSE IF 100 * totalAllocation > 80 * availableHours THEN warning("medium")
           ELSE NoWarning

\* useMemo(() => getOverAllocationWarning(), [form.pool, form.weeklyAllocation,
\* form.estimatedHours, form.name, projects, pools]) on the render after the
\* form became f; projects and pools do not change while the form is open.
MemoWarning(f) ==
  IF \/ f.pool # form.pool \/ f.weeklyAllocation # form.weeklyAllocation
     \/ f.estimatedHours # form.estimatedHours \/ f.name # form.name
  THEN getOverAllocationWarning(f, projects, pools)
  ELSE overAllocationWarning

\* The dates of the form lie in the window of days the model explores.
DatesInWindow(f) ==
  /\ f.startDate \in {EmptyDate} \cup (0..MaxDay)
  /\ f.targetDate \in {EmptyDate} \cup (0..MaxDay)

\* handleChange of the mounted revision, and the pre-populating effect when
\* one of its dependencies changed.
handleChange(name, value) ==
  /\ showProjectForm
  /\ form' = IF formRev = "current"
             THEN NewFormOnChange(form, name, value, FormStandardWeek(form, pools))
             ELSE NewFormOnChangeV1(form, name, value, FormStandardWeek(form, pools))
  /\ DatesInWindow(form')
  /\ weeklyAllocationInput' =
        IF formRev = "current" /\ form'.weeklyAllocation # form.weeklyAllocation
        THEN Prefill(form', selectedWeekForAllocation)
        ELSE weeklyAllocationInput
  /\ overAllocationWarning' = MemoWarning(form')
  /\ UNCHANGED <<propVars, extVars, last, bulkVars, cacheVars, mountVars, errors, formRev, selectedWeekForAllocation>>

\* The click on the Start Date label.
RecalcStart ==
  /\ showProjectForm
  /\ form.estimatedHours > 0 /\ form.weeklyAllocation > 0
  /\ form.targetDate # EmptyDate
  /\ form' = [form EXCEPT !.startDate =
                ISODate(subtractWorkDays(ParseDate(form.targetDate), RecalcWorkDays))]
  /\ DatesInWindow(form')
  /\ UNCHANGED <<propVars, extVars, last, bulkVars, cacheVars, mountVars, errors, formRev, selectedWeekForAllocation,
                 weeklyAllocationInput, overAllocationWarning>>

\* The click on the Target End Date label.
RecalcTarget ==
  /\ showProjectForm
  /\ form.estimatedHours > 0 /\ form.weeklyAllocation > 0
  /\ form.startDate # EmptyDate
  /\ form' = [form EXCEPT !.targetDate =
                ISODate(addWorkDays(ParseDate(form.startDate), RecalcWorkDays))]
  /\ DatesInWindow(form')
  /\ UNCHANGED <<propVars, extVars, last, bulkVars, cacheVars, mountVars, errors, formRev, selectedWeekForAllocation,
                 weeklyAllocationInput, overAllocationWarning>>

\* The Week select changes; the effect fills the input.
setSelectedWeekForAllocation(weekKey) ==
  /\ showProjectForm
  /\ formRev = "current"
  /\ selectedWeekForAllocation' = weekKey
  /\ weeklyAllocationInput' =
        IF weekKey # selectedWeekForAllocation THEN Prefill(form, weekKey)
        ELSE weeklyAllocationInput
  /\ UNCHANGED <<propVars, extVars, last, bulkVars, cacheVars, mountVars, errors, formRev, form, overAllocationWarning>>

\* Typing into the Allocation (%) input.
setWeeklyAllocationInput(str) ==
  /\ showProjectForm
  /\ formRev = "current"
  /\ weeklyAllocationInput' = str
  /\ UNCHANGED <<propVars, extVars, last, bulkVars, cacheVars, mountVars, errors, formRev, form, selectedWeekForAllocation,
                 overAllocationWarning>>

handleAddWeeklyAllocation ==
  /\ showProjectForm
  /\ formRev = "current"
  /\ selectedWeekForAllocation # NoKey /\ weeklyAllocationInput # ""
  /\ LET allocation == parseFloat(weeklyAllocationInput)
     IN  IF allocation < 0 \/ allocation > 100
         THEN UNCHANGED <<form, selectedWeekForAllocation, weeklyAllocationInput>>
         ELSE /\ form' = [form EXCEPT !.weeklyAllocations =
                            [k \in DOMAIN form.weeklyAllocations
                                      \cup {selectedWeekForAllocation} |->
                               IF k = selectedWeekForAllocation THEN allocation
                               ELSE form.weeklyAllocations[k]]]
              /\ selectedWeekForAllocation' = NoKey
              /\ weeklyAllocationInput' = ""
  /\ UNCHANGED <<propVars, extVars, last, bulkVars, cacheVars, mountVars, errors, formRev, overAllocationWarning>>

handleRemoveWeeklyAllocation(weekKey) ==
  /\ showProjectForm
  /\ formRev = "current"
  /\ weekKey \in DOMAIN form.weeklyAllocations
  /\ form' = [form EXCEPT !.weeklyAllocations =
                [k \in DOMAIN form.weeklyAllocations \ {weekKey} |->
                   form.weeklyAllocations[k]]]
  /\ weeklyAllocationInput' = Prefill(form', selectedWeekForAllocation)
  /\ UNCHANGED <<propVars, extVars, last, bulkVars, cacheVars, mountVars, errors, formRev, selectedWeekForAllocation,
                 overAllocationWarning>>

\* calculatedDuration returned null.
NoDuration == [workDays |-> 0 - 1]

\* calculatedDuration: the work days and the calendar weeks of the
\* "Estimated Duration" panel.
calculatedDuration(f, ps) ==
  IF f.estimatedHours = 0 \/ f.weeklyAllocation <= 0 THEN NoDuration
  ELSE IF f.weeklyAllocation * FormStandardWeek(f, ps) <= 0 THEN NoDuration
  ELSE [ workDays |-> workDaysNeeded(f.estimatedHours, f.weeklyAllocation,
                                     FormStandardWeek(f, ps)),
         calendarWeeks |-> CeilDiv(100 * f.estimatedHours,
                                   f.weeklyAllocation * FormStandardWeek(f, ps)) ]

\* validate: the fields that get an error message.
validate(f) ==
  (IF f.name = "" THEN {"name"} ELSE {})
  \cup (IF f.pool = "" THEN {"pool"} ELSE {})
  \cup (IF f.estimatedHours <= 0 THEN {"estimatedHours"} ELSE {})
  \cup (IF f.weeklyAllocation <= 0 THEN {"weeklyAllocation"} ELSE {})
  \cup (IF f.startDate = EmptyDate /\ f.targetDate = EmptyDate
        THEN {"startDate", "targetDate"} ELSE {})
  \cup (IF /\ f.startDate # EmptyDate /\ f.targetDate # EmptyDate
           /\ ParseDate(f.startDate) > ParseDate(f.targetDate)
        THEN {"startDate", "targetDate"} ELSE {})

\* The "Date Order Issue" warning is on screen.
dateOrderIssueShown(f) ==
  /\ f.startDate # EmptyDate /\ f.targetDate # EmptyDate
  /\ ParseDate(f.startDate) > ParseDate(f.targetDate)

\* App.handleSaveProject: the project list after the form's data is saved.
handleSaveProject(data) ==
  IF selectedProjectIndex # NoIndex
  THEN [i \in DOMAIN projects |-> IF i = selectedProjectIndex THEN data ELSE projects[i]]
  ELSE Append(projects, data)

\* handleSubmit: validate, and with no error save through App, which takes
\* the form off the screen.
handleSubmit ==
  /\ showProjectForm
  /\ IF validate(form) = {}
     THEN /\ projects' = handleSaveProject(form)
          /\ selectedProjectIndex' = NoIndex
          /\ showProjectForm' = FALSE
          /\ form' = initialForm
          /\ selectedWeekForAllocation' = NoKey
          /\ weeklyAllocationInput' = ""
          /\ overAllocationWarning' = NoWarning
          /\ errors' = {}
     ELSE /\ errors' = validate(form)
          /\ UNCHANGED <<projects, mountVars, form, selectedWeekForAllocation,
                         weeklyAllocationInput, overAllocationWarning>>
  /\ localStorage' = StorageOf(projects', pools)
  /\ UNCHANGED <<tz, now, pools, panelVars, last, bulkVars, cacheVars, formRev>>

-----------------------------------------------------------------------------
(* The project form deriving dates, in both revisions *)

\* Day 71 is a Monday, day 76 a Saturday.
DateInputs == {EmptyDate, 71, 76}
HourInputs == {0, 80}
PercentInputs == {0, 50, 100}
DatePools == {PoolRec("Dev", 40, 5, 5, 0), PoolRec("Dev", 40, 5, 5, 32)}

InitDates ==
  /\ tz \in Zones
  /\ now = MondayNoon
  /\ CachesEmpty
  /\ pools \in { <<dev, QAPool>> : dev \in DatePools }
  /\ projects = <<>>
  /\ last = NoResult
  /\ selectedWeekStart = NoWeek
  /\ selectedPool = ""
  /\ concurrentProjects = <<>>
  /\ formRev \in {"current", "earlier"}
  /\ form = [initialForm EXCEPT !.name = "P1", !.pool = "Dev"]
  /\ selectedWeekForAllocation = NoKey
  /\ weeklyAllocationInput = ""
  /\ overAllocationWarning = NoWarning
  /\ errors = {}
  /\ selectedProjectIndex = NoIndex
  /\ showProjectForm = TRUE
  /\ ExtIdle

NextDates ==
  \/ \E v \in HourInputs : handleChange("estimatedHours", v)
  \/ \E v \in PercentInputs : handleChange("weeklyAllocation", v)
  \/ \E v \in DateInputs : handleChange("startDate", v)
  \/ \E v \in DateInputs : handleChange("targetDate", v)
  \/ RecalcStart
  \/ RecalcTarget
  \/ handleSubmit

SpecDates == InitDates /\ [][NextDates]_vars

-----------------------------------------------------------------------------
(* The project form editing a project of a pool shared with another project *)

FormStatuses == {"Development", "Complete"}
OtherStatuses == {"Development", "Complete", "complete", "Completed"}
TypedAllocations == {"25", "150"}

\* setForm({...initialForm, ...initialData, ...}) of the initialData effect.
FormOf(p) ==
  [ name |-> p.name, pool |-> p.pool, startDate |-> p.startDate,
    targetDate |-> p.targetDate, estimatedHours |-> p.estimatedHours,
    status |-> p.status, weeklyAllocation |-> p.weeklyAllocation,
    weeklyAllocations |-> p.weeklyAllocations, autoRecalculated |-> FALSE ]

\* The pool of the project being edited: a pool of the list, or one that
\* the list does not hold.
EditedPools == {"Dev", "Ghost"}

\* The project being edited: days 8..15 span two week buckets.
EditedProject(pl) ==
  [ name |-> "P2", pool |-> pl, startDate |-> 8, targetDate |-> 15,
    estimatedHours |-> 8, status |-> "Development", weeklyAllocation |-> 50,
    weeklyAllocations |-> NoOverrides ]

OtherProject(st) ==
  [ name |-> "P1", pool |-> "Dev", startDate |-> 8, targetDate |-> 15,
    estimatedHours |-> 8, status |-> st, weeklyAllocation |-> 50,
    weeklyAllocations |-> NoOverrides ]

InitForm ==
  /\ tz \in Zones
  /\ now = MondayNoon
  /\ CachesEmpty
  /\ pools = <<PoolRec("Dev", 40, 5, 5, 0), QAPool>>
  /\ projects \in { <<OtherProject(st), EditedProject(pl)>> :
                        st \in OtherStatuses, pl \in EditedPools }
  /\ last = NoResult
  /\ selectedWeekStart = NoWeek
  /\ selectedPool = ""
  /\ concurrentProjects = <<>>
  /\ formRev = "current"
  /\ form = FormOf(projects[2])
  /\ selectedWeekForAllocation = NoKey
  /\ weeklyAllocationInput = ""
  /\ overAllocationWarning = getOverAllocationWarning(form, projects, pools)
  /\ errors = {}
  /\ selectedProjectIndex = 2
  /\ showProjectForm = TRUE
  /\ ExtIdle

NextForm ==
  \/ \E v \in FormStatuses : handleChange("status", v)
  \/ \E v \in PercentInputs : handleChange("weeklyAllocation", v)
  \/ \E v \in {"Dev", "QA"} : handleChange("pool", v)
  \/ \E k \in AvailableWeekKeys(form) \cup {NoKey} : setSelectedWeekForAllocation(k)
  \/ \E str \in TypedAllocations : setWeeklyAllocationInput(str)
  \/ handleAddWeeklyAllocation
  \/ \E k \in DOMAIN form.weeklyAllocations : handleRemoveWeeklyAllocation(k)
  \/ handleSubmit

SpecForm == InitForm /\ [][NextForm]_vars

-----------------------------------------------------------------------------
(* The week buckets of the chart *)

\* The while loop of getAllWeekStarts.
RECURSIVE WeekStartsUpTo(_, _)
WeekStartsUpTo(current, max) ==
  IF DateLE(current, max)
  THEN <<current>> \o WeekStartsUpTo(AddDays(current, 7), max)
  ELSE <<>>

\* getAllWeekStarts without the week prepended before min.
getAllWeekStartsFromMin(min, max) == WeekStartsUpTo(getWeekStart(min), max)

getAllWeekStarts(min, max) ==
  WeekStartsUpTo(AddDays(getWeekStart(min), 0 - 7), max)

\* The instants given as min and max: midnight UTC and noon UTC of the days
\* 7 .. 7 + MaxSpanDays.
RangeInputs ==
  { (7 + d) * HoursPerDay + h : d \in 0..MaxSpanDays, h \in {0, 12} }

InitWeeks ==
  /\ tz \in Zones
  /\ now = MondayNoon
  /\ CachesEmpty
  /\ pools = <<>>
  /\ projects = <<>>
  /\ last = NoResult
  /\ selectedWeekStart = NoWeek
  /\ selectedPool = ""
  /\ concurrentProjects = <<>>
  /\ FormNotMounted
  /\ ExtIdle

\* weekStarts = getAllWeekStarts(min, max)
WeekStartsCalc(min, max) ==
  /\ last' = [fn |-> "getAllWeekStarts", min |-> min, max |-> max,
              res |-> getAllWeekStarts(min, max)]
  /\ UNCHANGED <<propVars, extVars, bulkVars, formVars, cacheVars>>

NextWeeks == \E min \in RangeInputs, max \in RangeInputs : WeekStartsCalc(min, max)

SpecWeeks == InitWeeks /\ [][NextWeeks]_vars

-----------------------------------------------------------------------------
(* The result caches: UtilizationCache of src/src/ExportPanel.tsx and
   PoolUtilizationCache of src/src/BulkUpdateForm.tsx *)

\* A cache is the set of its fresh entries; an entry older than maxAge is
\* taken out by CacheEntriesExpire, since get() no longer returns it.
CacheHas(cache, key) == \E e \in cache : e.key = key
CacheGet(cache, key) == (CHOOSE e \in cache : e.key = key).data
CacheSet(cache, key, data) ==
  {e \in cache : e.key # key} \cup {[key |-> key, data |-> data]}

\* `${poolName}-${weekStartISO}-${weekEndISO}`
ChartCacheKey(poolName, weekStart, weekEnd) ==
  <<poolName, ISODate(weekStart), ISODate(weekEnd)>>

\* calculatePoolUtilization with its cache: the result and the cache after
\* the call.  The result for a pool the list lacks is not stored.
cachedCalculatePoolUtilization(cache, projs, ps, poolName, weekStart, weekEnd) ==
  LET key == ChartCacheKey(poolName, weekStart, weekEnd)
  IN  IF CacheHas(cache, key) THEN [res |-> CacheGet(cache, key), cache |-> cache]
      ELSE LET res == calculatePoolUtilization(projs, ps, poolName, weekStart, weekEnd)
           IN  [res |-> res,
                cache |-> IF FindPool(ps, poolName) = {} THEN cache
                          ELSE CacheSet(cache, key, res)]

\* validProjects: the projects whose two dates parse (no filter is set).
validProjects(projs) ==
  LET Valid(p) == ParseDate(p.targetDate) # NaT /\ ParseDate(p.startDate) # NaT
  IN  SelectSeq(projs, Valid)

SetMin(S) == CHOOSE x \in S : \A y \in S : x <= y
SetMax(S) == CHOOSE x \in S : \A y \in S : x >= y

\* getDateRange of the valid projects: at least fourteen days wide.
getDateRange(projs, today) ==
  LET dates == UNION {{ParseDate(projs[i].startDate), ParseDate(projs[i].targetDate)} :
                        i \in 1..Len(projs)}
  IN  IF dates = {} THEN [min |-> today, max |-> AddDays(today, 30)]
      ELSE LET min == SetMin(dates)
               max == SetMax(dates)
               minRange == 14 * HoursPerDay
               actualRange == max - min
               padding == (minRange - actualRange) \div 2
           IN  IF actualRange < minRange
               THEN [min |-> min - padding, max |-> max + padding]
               ELSE [min |-> min, max |-> max]

\* weekStarts[currentWeekIdx >= 0 ? currentWeekIdx : 0]
currentWeekStart(projs, instant) ==
  LET range      == getDateRange(validProjects(projs), instant)
      weekStarts == getAllWeekStarts(range.min, range.max)
      today      == LocalMidnight(instant)
      found      == {i \in 1..Len(weekStarts) :
                       today >= weekStarts[i] /\ today < AddDays(weekStarts[i], 7)}
  IN  IF found # {} THEN weekStarts[SetMin(found)] ELSE weekStarts[1]

\* uniquePools: the pool names of the valid projects.
uniquePools(projs) ==
  {validProjects(projs)[i].pool : i \in 1..Len(validProjects(projs))} \ {""}

\* One render of GanttChart: the utilization of every pool of the chart in
\* the current week, each asked through the cache.
GanttChartRender(cache, projs, ps, instant) ==
  LET weekStart == currentWeekStart(projs, instant)
      weekEnd   == WeekEndOf(weekStart)
      Call(n)   == cachedCalculatePoolUtilization(cache, projs, ps, n, weekStart, weekEnd)
      names     == uniquePools(projs)
  IN  [component |-> "GanttChart", projects |-> projs, pools |-> ps, week |-> weekStart,
       res   |-> [n \in names |-> Call(n).res],
       cache |-> cache \cup UNION {Call(n).cache : n \in names}]

\* `${selectedPool}-${rows.map(cp => `${cp.project.name}:${cp.newAllocation}`).join(',')}`
BulkCacheKey(selPool, rows) ==
  LET NameAndAllocation(cp) == <<cp.name, cp.newAllocation>>
  IN  <<selPool, MapSeq(rows, NameAndAllocation)>>

\* getPoolUtilization with its cache: the result and the cache after the call.
cachedGetPoolUtilization(cache, selPool, rows, ps) ==
  LET key == BulkCacheKey(selPool, rows)
  IN  IF selPool = "" THEN [res |-> NoBulkResult, cache |-> cache]
      ELSE IF CacheHas(cache, key) THEN [res |-> CacheGet(cache, key), cache |-> cache]
      ELSE LET res == getPoolUtilization(selPool, rows, ps)
           IN  [res |-> res,
                cache |-> IF FindPool(ps, selPool) = {} THEN cache
                          ELSE CacheSet(cache, key, res)]

\* One render of BulkUpdateForm.
BulkUpdateFormRender(cache, selPool, rows, ps) ==
  LET call == cachedGetPoolUtilization(cache, selPool, rows, ps)
  IN  [component |-> "BulkUpdateForm", selectedPool |-> selPool, rows |-> rows,
       pools |-> ps, res |-> call.res, cache |-> call.cache]

\* What a render leaves on the screen: the render without the cache.
Shown(render) == [f \in DOMAIN render \ {"cache"} |-> render[f]]

\* The pool select changes.  The form renders with the old rows, the first
\* effect rebuilds the rows, the form renders again, and the second effect,
\* whose dependency is the rows, clears the cache.
SelectPoolAndRender(poolName) ==
  LET rows == InitConcurrent(projects, poolName, selectedWeekStart, now)
      ra   == BulkUpdateFormRender(poolUtilizationCache, poolName, concurrentProjects, pools)
      rb   == BulkUpdateFormRender(ra.cache, poolName, rows, pools)
  IN  /\ selectedPool' = poolName
      /\ concurrentProjects' = rows
      /\ last' = [fn |-> "render", renders |-> <<Shown(ra), Shown(rb)>>]
      /\ poolUtilizationCache' = {}
      /\ UNCHANGED <<propVars, extVars, selectedWeekStart, formVars, utilizationCache>>

\* A week label is clicked: App renders, and with it the chart, whose props
\* are the same, and the form, whose first effect rebuilds the rows.
SelectWeekAndRender(weekStart) ==
  LET rows  == InitConcurrent(projects, selectedPool, weekStart, now)
      chart == GanttChartRender(utilizationCache, projects, pools, now)
      ra    == BulkUpdateFormRender(poolUtilizationCache, selectedPool, concurrentProjects,
                                    pools)
      rb    == BulkUpdateFormRender(ra.cache, selectedPool, rows, pools)
  IN  /\ selectedWeekStart' = weekStart
      /\ concurrentProjects' = rows
      /\ last' = [fn |-> "render", renders |-> <<Shown(chart), Shown(ra), Shown(rb)>>]
      /\ utilizationCache' = chart.cache
      /\ poolUtilizationCache' = {}
      /\ UNCHANGED <<propVars, extVars, selectedPool, formVars>>

\* A row's checkbox is clicked: the form renders with the new rows and the
\* second effect clears the cache.
ToggleActiveAndRender(projectName) ==
  /\ TableShown
  /\ projectName \in RowNames
  /\ LET rows == [i \in 1..Len(concurrentProjects) |->
                    LET cp == concurrentProjects[i]
                    IN  IF cp.name = projectName
                        THEN [cp EXCEPT !.isActive = ~cp.isActive,
                                        !.newAllocation = IF cp.isActive THEN 0
                                                          ELSE cp.currentAllocation]
                        ELSE cp]
         r    == BulkUpdateFormRender(poolUtilizationCache, selectedPool, rows, pools)
     IN  /\ concurrentProjects' = rows
         /\ last' = [fn |-> "render", renders |-> <<Shown(r)>>]
         /\ poolUtilizationCache' = {}
  /\ UNCHANGED <<propVars, extVars, selectedWeekStart, selectedPool, formVars, utilizationCache>>

\* Save: App takes the new projects and leaves the tab, so the form is
\* unmounted.  The chart renders with the new projects, its effect clears
\* the cache and empties cachedFutureWarnings, and the chart renders again.
SaveAndRender ==
  /\ TableShown
  /\ ~BulkIsOverAllocated(selectedPool, concurrentProjects, pools)
  /\ LET projs == updatedProjects(projects, concurrentProjects)
         r1    == GanttChartRender(utilizationCache, projs, pools, now)
         r2    == GanttChartRender({}, projs, pools, now)
     IN  /\ projects' = projs
         /\ last' = [fn |-> "render", renders |-> <<Shown(r1), Shown(r2)>>]
         /\ utilizationCache' = r2.cache
  /\ selectedPool' = ""
  /\ concurrentProjects' = <<>>
  /\ localStorage' = StorageOf(projects', pools)
  /\ UNCHANGED <<tz, now, pools, panelVars, selectedWeekStart, formVars, poolUtilizationCache>>

\* More than maxAge passes without a render: get() returns no entry any more.
CacheEntriesExpire ==
  /\ utilizationCache # {} \/ poolUtilizationCache # {}
  /\ utilizationCache' = {}
  /\ poolUtilizationCache' = {}
  /\ UNCHANGED <<propVars, extVars, last, bulkVars, formVars>>

\* The chart has mounted: it rendered, its effect cleared the cache, and it
\* rendered again.
InitCache ==
  /\ tz = 0
  /\ now = MondayNoon
  /\ pools \in { <<dev, QAPool>> : dev \in BulkPools }
  /\ projects \in ProjectLists(BulkShapes, MaxBulkProjects)
  /\ last = NoResult
  /\ selectedWeekStart = NoWeek
  /\ selectedPool = ""
  /\ concurrentProjects = <<>>
  /\ FormNotMounted
  /\ utilizationCache = GanttChartRender({}, projects, pools, now).cache
  /\ poolUtilizationCache = {}
  /\ ExtIdle

NextCache ==
  \/ \E i \in 1..Len(pools) : SelectPoolAndRender(pools[i].name)
  \/ \E weekStart \in WeekStarts : SelectWeekAndRender(weekStart)
  \/ \E i \in 1..Len(projects) : ToggleActiveAndRender(projects[i].name)
  \/ SaveAndRender
  \/ CacheEntriesExpire

SpecCache == InitCache /\ [][NextCache]_vars

-----------------------------------------------------------------------------
(* The future over-allocation warnings: getFutureOverAllocationWarnings of
   src/src/ExportPanel.tsx and of src/public/utilization-worker.js.
   currentWeekIdx and the loop index count from 0, as in the code. *)

Min(a, b) == IF a <= b THEN a ELSE b

\* The pools.forEach of one week, on the main thread.
WeekWarnings(processed, ps, weekStart) ==
  LET weekEnd == weekStart + 6 * HoursPerDay
      Util(pool) == calculatePoolUtilizationFromProjects(
                      getProjectsByPoolInWeek(processed, weekStart, weekEnd, pool.name), pool)
      Over(pool) == Util(pool).isOverAllocated
      Warning(pool) == [poolName |-> pool.name, weekStart |-> weekStart,
                        utilization |-> Util(pool)]
  IN  MapSeq(SelectSeq(ps, Over), Warning)

\* for (let i = ...; i < stop; i++)
RECURSIVE WarningsFrom(_, _, _, _, _)
WarningsFrom(processed, ps, weekStarts, i, stop) ==
  IF i < stop
  THEN WeekWarnings(processed, ps, weekStarts[i + 1])
         \o WarningsFrom(processed, ps, weekStarts, i + 1, stop)
  ELSE <<>>

getFutureOverAllocationWarnings(projs, ps, weekStarts, currentWeekIdx) ==
  LET processed   == preprocessProjects(projs)
      futureWeeks == Min(4, Len(weekStarts) - currentWeekIdx - 1)
  IN  IF futureWeeks <= 0 THEN <<>>
      ELSE WarningsFrom(processed, ps, weekStarts, currentWeekIdx + 1,
                        Min(currentWeekIdx + 5, Len(weekStarts)))

\* date.toISOString(): the UTC day and time of the instant, and new Date(iso).
toISOString(t) == [date |-> t \div HoursPerDay, hour |-> t % HoursPerDay]
ParseInstant(iso) == iso.date * HoursPerDay + iso.hour

\* The pools.forEach of one week, in the worker.
WorkerWeekWarnings(processed, ps, weekStart) ==
  LET weekEnd == weekStart + 6 * HoursPerDay
      Util(pool) == WorkerCalculatePoolUtilizationFromProjects(
                      WorkerGetProjectsByPoolInWeek(processed, weekStart, weekEnd, pool.name),
                      pool)
      Over(pool) == Util(pool).isOverAllocated
      Warning(pool) == [poolName |-> pool.name, weekStart |-> toISOString(weekStart),
                        utilization |-> Util(pool)]
  IN  MapSeq(SelectSeq(ps, Over), Warning)

RECURSIVE WorkerWarningsFrom(_, _, _, _, _)
WorkerWarningsFrom(processed, ps, weekStarts, i, stop) ==
  IF i < stop
  THEN WorkerWeekWarnings(processed, ps, weekStarts[i + 1])
         \o WorkerWarningsFrom(processed, ps, weekStarts, i + 1, stop)
  ELSE <<>>

WorkerGetFutureOverAllocationWarnings(projs, ps, weekStarts, currentWeekIdx) ==
  LET processed   == WorkerPreprocessProjects(projs)
      futureWeeks == Min(4, Len(weekStarts) - currentWeekIdx - 1)
  IN  IF futureWeeks <= 0 THEN <<>>
      ELSE WorkerWarningsFrom(processed, ps, weekStarts, currentWeekIdx + 1,
                              Min(currentWeekIdx + 5, Len(weekStarts)))

\* self.onmessage for a FUTURE_WARNINGS request: the week starts arrive as
\* ISO strings.
WorkerOnMessage(data) ==
  WorkerGetFutureOverAllocationWarnings(data.projects, data.pools,
                                        MapSeq(data.weekStarts, ParseInstant),
                                        data.currentWeekIdx)

\* futureOverAllocationWarnings with a result of the worker at hand:
\* weekStart becomes a Date again.
cachedWarningsAsShown(cachedFutureWarnings) ==
  LET Revive(warning) == [warning EXCEPT !.weekStart = ParseInstant(warning.weekStart)]
  IN  MapSeq(cachedFutureWarnings, Revive)

MaxWeeks == 6

\* weekStarts: consecutive week buckets of the chart.
WarnWeekLists == { [k \in 1..n |-> WeekStartOf(k)] : n \in 1..MaxWeeks }

WarnShapes ==
  { ProjectRec("", "Dev", d[1], d[2], st, wa, NoOverrides) :
      d \in { <<7, 13>>, <<14, 48>>, <<21, BadDate>> },
      st \in {"Development", "Complete"},
      wa \in {50, 100} }
  \cup { ProjectRec("", "QA", 14, 27, "Development", 100, NoOverrides) }

InitWarnings ==
  /\ tz \in Zones
  /\ now = MondayNoon
  /\ CachesEmpty
  /\ pools = <<PoolRec("Dev", 40, 5, 5, 35), QAPool>>
  /\ projects \in ProjectLists(WarnShapes, MaxProjects)
  /\ last = NoResult
  /\ selectedWeekStart = NoWeek
  /\ selectedPool = ""
  /\ concurrentProjects = <<>>
  /\ FormNotMounted
  /\ ExtIdle

\* The effect posts a FUTURE_WARNINGS request and the worker answers it; the
\* same weeks are also given to the main-thread function.
FutureWarningsCalc(weekStarts, currentWeekIdx) ==
  /\ Len(projects) > 0 /\ Len(pools) > 0 /\ Len(weekStarts) > 0
  /\ LET data == [projects |-> projects, pools |-> pools,
                  weekStarts |-> MapSeq(weekStarts, toISOString),
                  currentWeekIdx |-> currentWeekIdx]
     IN  last' = [fn |-> "FUTURE_WARNINGS", weekStarts |-> weekStarts,
                  currentWeekIdx |-> currentWeekIdx,
                  worker |-> cachedWarningsAsShown(WorkerOnMessage(data)),
                  main |-> getFutureOverAllocationWarnings(projects, pools, weekStarts,
                                                           currentWeekIdx)]
  /\ UNCHANGED <<propVars, extVars, bulkVars, formVars, cacheVars>>

NextWarnings ==
  \E weekStarts \in WarnWeekLists :
    \E currentWeekIdx \in (0 - 1)..(Len(weekStarts) - 1) :
      FutureWarningsCalc(weekStarts, currentWeekIdx)

SpecWarnings == InitWarnings /\ [][NextWarnings]_vars

-----------------------------------------------------------------------------
(* The chart and its worker: src/src/ExportPanel.tsx, GanttChart *)

\* weekStarts and currentWeekIdx of a render of the chart (-1: today is in
\* no week of the chart).
chartWeekStarts(projs, instant) ==
  LET range == getDateRange(validProjects(projs), instant)
  IN  getAllWeekStarts(range.min, range.max)

chartCurrentWeekIdx(projs, instant) ==
  LET weekStarts == chartWeekStarts(projs, instant)
      today      == LocalMidnight(instant)
      found      == {i \in 1..Len(weekStarts) :
                       today >= weekStarts[i] /\ today < AddDays(weekStarts[i], 7)}
  IN  IF found # {} THEN SetMin(found) - 1 ELSE 0 - 1

\* The condition of the effect that posts a request.
effectPosts(w, projs, ps, instant) ==
  /\ w.workerReady
  /\ Len(projs) > 0 /\ Len(ps) > 0 /\ Len(chartWeekStarts(projs, instant)) > 0

\* What the worker is sent.
requestData(projs, ps, instant) ==
  [projects |-> projs, pools |-> ps,
   weekStarts |-> MapSeq(chartWeekStarts(projs, instant), toISOString),
   currentWeekIdx |-> chartCurrentWeekIdx(projs, instant)]

\* The chart has rendered after a change of its state.  weekStarts is a new
\* array in every render, so the posting effect runs after every render; it
\* posts, and setIsCalculating(true) brings one more render, and with it one
\* more request, when the flag was false.
RenderUntilSettled(w, projs, ps, instant) ==
  IF ~effectPosts(w, projs, ps, instant) THEN w
  ELSE IF w.isCalculating
  THEN [w EXCEPT !.inFlight = @ + 1, !.posted = @ + 1]
  ELSE [w EXCEPT !.isCalculating = TRUE, !.inFlight = @ + 2, !.posted = @ + 2]

\* onmessage for FUTURE_WARNINGS_RESULT: setCachedFutureWarnings(data), an
\* array the chart has not seen, and setIsCalculating(false); in one render
\* where the two updates are batched, in two where they are not.
onFutureWarningsResult(w, data, batched, projs, ps, instant) ==
  IF batched
  THEN RenderUntilSettled([w EXCEPT !.cachedFutureWarnings = data, !.isCalculating = FALSE],
                          projs, ps, instant)
  ELSE LET first == RenderUntilSettled([w EXCEPT !.cachedFutureWarnings = data],
                                       projs, ps, instant)
       IN  IF first.isCalculating
           THEN RenderUntilSettled([first EXCEPT !.isCalculating = FALSE], projs, ps, instant)
           ELSE first

MaxPosted == 6

workerFrame == <<propVars, last, bulkVars, formVars, cacheVars, localStorage, exportPanel,
                 poolForm>>

\* The worker's WORKER_READY message arrives: setWorkerReady(true).
WorkerReady ==
  /\ ~chartWorker.workerReady
  /\ chartWorker' = RenderUntilSettled([chartWorker EXCEPT !.workerReady = TRUE],
                                       projects, pools, now)
  /\ UNCHANGED workerFrame

\* The worker answers the oldest request, and the chart takes the answer.
FutureWarningsResult(batched) ==
  /\ chartWorker.inFlight > 0
  /\ chartWorker.posted < MaxPosted
  /\ chartWorker' = onFutureWarningsResult(
                      [chartWorker EXCEPT !.inFlight = @ - 1],
                      WorkerOnMessage(requestData(projects, pools, now)),
                      batched, projects, pools, now)
  /\ UNCHANGED workerFrame

InitWorker ==
  /\ tz = 0
  /\ now = MondayNoon
  /\ CachesEmpty
  /\ pools = <<PoolRec("Dev", 40, 5, 5, 35), QAPool>>
  /\ projects \in ProjectLists(WarnShapes, MaxProjects)
  /\ last = NoResult
  /\ selectedWeekStart = NoWeek
  /\ selectedPool = ""
  /\ concurrentProjects = <<>>
  /\ FormNotMounted
  /\ ExtIdle

NextWorker ==
  \/ WorkerReady
  \/ \E batched \in BOOLEAN : FutureWarningsResult(batched)

SpecWorker == InitWorker /\ [][NextWorker]_vars

-----------------------------------------------------------------------------
(* The import of src/src/ExportPanel.tsx *)

\* results of a conflict analysis: one record per push.
ConflictResult(type, name, action) == [type |-> type, name |-> name, action |-> action]

\* findIndex(p => p.name === name): the first index, 0 for -1.
FindIndexByName(list, name) ==
  LET hit == {i \in 1..Len(list) : list[i].name = name}
  IN  IF hit = {} THEN 0 ELSE CHOOSE i \in hit : \A j \in hit : i <= j

NamesOf(list) == {list[i].name : i \in 1..Len(list)}

\* The fields analyzeProjectConflicts compares, of those the model carries
\* (progress and notes are not carried).
FieldsToCompare ==
  {"name", "sponsor", "pool", "startDate", "targetDate", "estimatedHours", "status",
   "weeklyAllocation"}

\* existing[field] === imported[field] for every compared field; a field
\* one of them lacks is undefined there.
isIdentical(existing, imported) ==
  \A field \in FieldsToCompare :
     /\ (field \in DOMAIN existing) = (field \in DOMAIN imported)
     /\ field \in DOMAIN existing /\ field \in DOMAIN imported
          => existing[field] = imported[field]

analyzeProjectConflicts(importedProjects, existingProjects) ==
  LET Classify(importedProject) ==
        LET existingIndex == FindIndexByName(existingProjects, importedProject.name)
        IN  IF existingIndex # 0
            THEN IF isIdentical(existingProjects[existingIndex], importedProject)
                 THEN ConflictResult("project", importedProject.name, "kept")
                 ELSE ConflictResult("project", importedProject.name, "updated")
            ELSE ConflictResult("project", importedProject.name, "added")
      NotInImport(existingProject) == existingProject.name \notin NamesOf(importedProjects)
      Deleted(existingProject) == ConflictResult("project", existingProject.name, "deleted")
  IN  MapSeq(importedProjects, Classify)
        \o MapSeq(SelectSeq(existingProjects, NotInImport), Deleted)

\* lastModified: p.lastModified || new Date().toISOString()
WithTimestamp(p, instant) ==
  IF "lastModified" \in DOMAIN p THEN p ELSE p @@ [lastModified |-> instant]

\* existing.lastModified ? new Date(existing.lastModified).getTime() : 0
ModifiedTime(p) == IF "lastModified" \in DOMAIN p THEN p.lastModified ELSE 0

\* The merge of the imported projects into a copy of the stored ones: a
\* project of a stored name replaces it, a new one is pushed, and the stored
\* ones the import lacks are spliced out.
RECURSIVE MergeProjects(_, _)
MergeProjects(merged, imported) ==
  IF imported = <<>> THEN merged
  ELSE LET importedProject == Head(imported)
           existingIndex == FindIndexByName(merged, importedProject.name)
       IN  MergeProjects(IF existingIndex # 0
                         THEN [merged EXCEPT ![existingIndex] = importedProject]
                         ELSE Append(merged, importedProject),
                         Tail(imported))

mergedProjectsOf(importedProjects, projs) ==
  LET InImport(p) == p.name \in NamesOf(importedProjects)
  IN  SelectSeq(MergeProjects(projs, importedProjects), InImport)

\* The pools: an imported pool of a stored name replaces it only when its
\* lastModified is later.
RECURSIVE MergePools(_, _)
MergePools(merged, imported) ==
  IF imported = <<>> THEN merged
  ELSE LET importedPool == Head(imported)
           existingIndex == FindIndexByName(merged, importedPool.name)
       IN  MergePools(IF existingIndex = 0 THEN Append(merged, importedPool)
                      ELSE IF ModifiedTime(importedPool) > ModifiedTime(merged[existingIndex])
                           THEN [merged EXCEPT ![existingIndex] = importedPool]
                           ELSE merged,
                      Tail(imported))

mergedPoolsOf(importedPools, ps) ==
  LET InImport(p) == p.name \in NamesOf(importedPools)
  IN  SelectSeq(MergePools(ps, importedPools), InImport)

\* The results pushed while the pools are merged.
RECURSIVE PoolResults(_, _)
PoolResults(merged, imported) ==
  IF imported = <<>> THEN <<>>
  ELSE LET importedPool == Head(imported)
           existingIndex == FindIndexByName(merged, importedPool.name)
           newer == existingIndex # 0
                      /\ ModifiedTime(importedPool) > ModifiedTime(merged[existingIndex])
           next == IF existingIndex = 0 THEN Append(merged, importedPool)
                   ELSE IF newer THEN [merged EXCEPT ![existingIndex] = importedPool]
                   ELSE merged
           action == IF existingIndex = 0 THEN "added"
                     ELSE IF newer THEN "updated" ELSE "kept"
       IN  <<ConflictResult("pool", importedPool.name, action)>>
             \o PoolResults(next, Tail(imported))

\* A text of the import box that JSON.parse rejects.
NotJSON == [valid |-> FALSE, json |-> <<>>]

RequiredProjectFields == {"name", "sponsor", "pool", "startDate", "targetDate", "estimatedHours"}
RequiredPoolFields == {"name", "weeklyHours"}

\* The checks of handleImport that throw.
ImportIsValid(text) ==
  /\ text.valid
  /\ LET parsedData == JSONparse(text)
     IN  /\ "projects" \in DOMAIN parsedData /\ "pools" \in DOMAIN parsedData
         /\ \A i \in 1..Len(parsedData.projects) :
               RequiredProjectFields \subseteq DOMAIN parsedData.projects[i]
         /\ \A i \in 1..Len(parsedData.pools) :
               RequiredPoolFields \subseteq DOMAIN parsedData.pools[i]

\* conflictResults of a valid JSON import, in the order of the pushes.
jsonConflictResults(parsedData, projs, ps, instant) ==
  LET Stamp(p) == WithTimestamp(p, instant)
      importedProjects == MapSeq(parsedData.projects, Stamp)
      importedPools    == MapSeq(parsedData.pools, Stamp)
      ProjectGone(p) == p.name \notin NamesOf(importedProjects)
      PoolGone(p)    == p.name \notin NamesOf(importedPools)
      DeletedProject(p) == ConflictResult("project", p.name, "deleted")
      DeletedPool(p)    == ConflictResult("pool", p.name, "deleted")
  IN  analyzeProjectConflicts(importedProjects, projs)
        \o PoolResults(ps, importedPools)
        \o MapSeq(SelectSeq(projs, ProjectGone), DeletedProject)
        \o MapSeq(SelectSeq(ps, PoolGone), DeletedPool)

\* The part of ExportPanel.handleImport after the checks: the new state of
\* the panel, and the data onImport is called with (none).
validImportOutcome(text, projs, ps, panel, instant) ==
  LET parsedData == JSONparse(text)
      Stamp(p) == WithTimestamp(p, instant)
      importedProjects == MapSeq(parsedData.projects, Stamp)
      importedPools    == MapSeq(parsedData.pools, Stamp)
  IN  [panel |-> [panel EXCEPT
                    !.importError = "",
                    !.backupData = <<[projects |-> projs, pools |-> ps]>>,
                    !.conflictResults =
                       jsonConflictResults(parsedData, projs, ps, instant),
                    !.showConflictSummary = TRUE,
                    !.importApplied = FALSE,
                    !.pendingImport =
                       <<[projects |-> mergedProjectsOf(importedProjects, projs),
                          pools    |-> mergedPoolsOf(importedPools, ps)]>>],
       onImport |-> <<>>]

\* An import that hands the merged data to App as soon as Import Data is
\* clicked.
importAppliedAtOnce(text, projs, ps, panel, instant) ==
  IF ~ImportIsValid(text)
  THEN [panel |-> [panel EXCEPT !.importError = "Invalid"], onImport |-> <<>>]
  ELSE LET outcome == validImportOutcome(text, projs, ps, panel, instant)
       IN  [outcome EXCEPT !.onImport = outcome.panel.pendingImport]

\* ExportPanel.handleImport: a text that fails a check leaves only the
\* error message.
handleImportOutcome(text, projs, ps, panel, instant) ==
  IF ~ImportIsValid(text)
  THEN [panel |-> [panel EXCEPT !.importError = "Invalid"], onImport |-> <<>>]
  ELSE validImportOutcome(text, projs, ps, panel, instant)

\* A CSV file: whether its header row has every required column, and its
\* rows.
CSVFile(complete, rows) == [complete |-> complete, rows |-> rows]

\* rows.map(row => ({...})): weeklyAllocations is not a column.
csvProject(row, instant) ==
  [name |-> row.name, sponsor |-> row.sponsor, pool |-> row.pool,
   startDate |-> row.startDate, targetDate |-> row.targetDate,
   estimatedHours |-> OrElse(row.estimatedHours, 0), status |-> row.status,
   weeklyAllocation |-> OrElse(row.weeklyAllocation, 0),
   lastModified |-> OrElse(row.lastModified, instant)]

\* reader.onload of handleCSVImport.  Inside it `projects` is the list just
\* built from the rows, which hides the prop: the analysis compares the
\* imported list with itself.
handleCSVImportOutcome(file, projs, ps, panel, instant) ==
  IF ~file.complete
  THEN [panel |-> [panel EXCEPT !.csvImportError = "Missing column"], onImport |-> <<>>]
  ELSE LET Convert(row) == csvProject(row, instant)
           csvProjects == MapSeq(file.rows, Convert)
       IN  [panel |-> [panel EXCEPT
                         !.csvImportError = "",
                         !.pendingImport = <<[projects |-> csvProjects, pools |-> ps]>>,
                         !.conflictResults =
                            analyzeProjectConflicts(csvProjects, csvProjects),
                         !.showConflictSummary = TRUE,
                         !.importApplied = FALSE],
            onImport |-> <<>>]

handleConfirmImportOutcome(panel) ==
  IF panel.pendingImport # <<>>
  THEN [panel |-> [panel EXCEPT !.importApplied = TRUE, !.showConflictSummary = FALSE,
                                !.pendingImport = <<>>],
        onImport |-> panel.pendingImport]
  ELSE [panel |-> panel, onImport |-> <<>>]

handleRevertOutcome(panel) ==
  IF panel.backupData # <<>>
  THEN [panel |-> [panel EXCEPT !.showConflictSummary = FALSE, !.conflictResults = <<>>,
                                !.backupData = <<>>, !.importApplied = FALSE,
                                !.pendingImport = <<>>],
        onImport |-> panel.backupData]
  ELSE [panel |-> panel, onImport |-> <<>>]

\* The Revert to Previous State button is on the screen.
RevertShown(panel) == panel.showConflictSummary /\ panel.backupData # <<>>

-----------------------------------------------------------------------------
(* App: src/unnamed/part_000 *)

\* The three demo pools; lastModified is the time the page was loaded.
defaultPools(today) ==
  << PoolRec("Development Team", 40, 0, 0, 40) @@ [lastModified |-> today],
     PoolRec("QA Team", 40, 0, 0, 40) @@ [lastModified |-> today],
     PoolRec("DevOps Team", 40, 0, 0, 40) @@ [lastModified |-> today] >>

DemoSponsors == <<"Sponsor A", "Sponsor B", "Sponsor C", "Sponsor D", "Sponsor E">>

DemoStatuses == <<"Not Started", "Development", "UAT", "Complete">>

\* The fields of a project the earlier sections do not read.
MoreFields(sponsor, estimatedHours, lastModified) ==
  [sponsor |-> sponsor, estimatedHours |-> estimatedHours, lastModified |-> lastModified]

\* Array.from({ length: 15 }, (_, i) => ...), i counted from 0.
defaultProjects(today) ==
  [k \in 1..15 |->
     LET i == k - 1
         startOffset == i * 7
         duration == 14 + (i % 4) * 7
     IN  ProjectRec("Project " \o ToString(i + 1), "Pool " \o ToString((i % 3) + 1),
                    ISODate(AddDays(today, startOffset)),
                    ISODate(AddDays(today, startOffset + duration)),
                    DemoStatuses[(i % 4) + 1], 10 + (i % 5) * 15, NoOverrides)
           @@ MoreFields(DemoSponsors[(i % 5) + 1], 40 + (i % 5) * 10, today)]

\* The loading effect for one item: the saved list when it parses to a
\* non-empty array, the demo data otherwise.
loadedList(text, defaults) ==
  IF Len(JSONparse(text)) > 0 THEN JSONparse(text) ELSE defaults

\* What no action of App or of the export panel changes.
appFrame == <<tz, now, cacheVars, formRev, form, selectedWeekForAllocation,
              weeklyAllocationInput, overAllocationWarning, errors, poolForm, chartWorker>>

MaxAppProjects == 3

\* The Export tab is chosen, and left again.
OpenExportTab ==
  /\ ~exportPanel.mounted
  /\ exportPanel' = [ExportPanelIdle EXCEPT !.mounted = TRUE]
  /\ UNCHANGED <<appFrame, projects, pools, localStorage, last, bulkVars, mountVars>>

OpenProjectsTab ==
  /\ exportPanel.mounted
  /\ exportPanel' = ExportPanelIdle
  /\ UNCHANGED <<appFrame, projects, pools, localStorage, last, bulkVars, mountVars>>

handleSelectProject(idx) ==
  /\ ~exportPanel.mounted
  /\ idx \in 1..Len(projects)
  /\ selectedProjectIndex' = idx
  /\ showProjectForm' = TRUE
  /\ UNCHANGED <<appFrame, projects, pools, localStorage, last, bulkVars, exportPanel>>

handleNewProject ==
  /\ ~exportPanel.mounted
  /\ selectedProjectIndex' = NoIndex
  /\ showProjectForm' = TRUE
  /\ UNCHANGED <<appFrame, projects, pools, localStorage, last, bulkVars, exportPanel>>

handleCancelProject ==
  /\ ~exportPanel.mounted /\ showProjectForm
  /\ selectedProjectIndex' = NoIndex
  /\ showProjectForm' = FALSE
  /\ UNCHANGED <<appFrame, projects, pools, localStorage, last, bulkVars, exportPanel>>

\* The x button of a row of the project list.
deleteProject(originalIdx) ==
  /\ ~exportPanel.mounted
  /\ originalIdx \in 1..Len(projects)
  /\ Len(projects) <= MaxAppProjects
  /\ projects' = [i \in 1..(Len(projects) - 1) |->
                    IF i < originalIdx THEN projects[i] ELSE projects[i + 1]]
  /\ selectedProjectIndex' = NoIndex
  /\ localStorage' = StorageOf(projects', pools)
  /\ UNCHANGED <<appFrame, pools, last, bulkVars, exportPanel, showProjectForm>>

\* The project form submits valid data: App.handleSaveProject.  The stamp
\* lastModified is the time of the save.
onSaveProject(data) ==
  /\ ~exportPanel.mounted /\ showProjectForm
  /\ Len(projects) < MaxAppProjects
  /\ projects' = handleSaveProject([data EXCEPT !.lastModified = now])
  /\ selectedProjectIndex' = NoIndex
  /\ showProjectForm' = FALSE
  /\ localStorage' = StorageOf(projects', pools)
  /\ last' = [fn |-> "handleSaveProject", data |-> [data EXCEPT !.lastModified = now],
              index |-> selectedProjectIndex, before |-> projects]
  /\ UNCHANGED <<appFrame, pools, bulkVars, exportPanel>>

\* A handler of the export panel has run: the panel takes its new state and
\* App.handleImport stores the data onImport was called with, if any.
PanelStep(outcome) ==
  /\ exportPanel' = outcome.panel
  /\ IF outcome.onImport # <<>>
     THEN /\ projects' = outcome.onImport[1].projects
          /\ pools' = outcome.onImport[1].pools
     ELSE UNCHANGED <<projects, pools>>
  /\ localStorage' = StorageOf(projects', pools')
  /\ UNCHANGED <<appFrame, bulkVars, mountVars>>

\* Import Data is clicked with the text in the box.
handleImport(text) ==
  /\ exportPanel.mounted
  /\ last' = [fn |-> "handleImport", valid |-> ImportIsValid(text), text |-> text,
              projects |-> projects, pools |-> pools]
  /\ PanelStep(handleImportOutcome(text, projects, pools, exportPanel, now))

\* A CSV file is chosen and read.
handleCSVImport(file) ==
  /\ exportPanel.mounted
  /\ last' = [fn |-> "handleCSVImport", valid |-> file.complete, file |-> file,
              projects |-> projects, pools |-> pools]
  /\ PanelStep(handleCSVImportOutcome(file, projects, pools, exportPanel, now))

handleConfirmImport ==
  /\ exportPanel.mounted
  /\ exportPanel.showConflictSummary /\ exportPanel.pendingImport # <<>>
  /\ PanelStep(handleConfirmImportOutcome(exportPanel))
  /\ last' = [fn |-> "handleConfirmImport", of |-> last.fn]

handleRevert ==
  /\ exportPanel.mounted
  /\ RevertShown(exportPanel)
  /\ PanelStep(handleRevertOutcome(exportPanel))
  /\ last' = [fn |-> "handleRevert", backup |-> exportPanel.backupData[1]]

\* The page is loaded again: App mounts with empty lists, the loading
\* effect reads the two items, and the saving effects write them back.
Reload ==
  /\ projects' = loadedList(localStorage.projects, defaultProjects(now))
  /\ pools' = loadedList(localStorage.pools, defaultPools(now))
  /\ localStorage' = StorageOf(projects', pools')
  /\ selectedProjectIndex' = NoIndex
  /\ showProjectForm' = FALSE
  /\ exportPanel' = ExportPanelIdle
  /\ last' = [fn |-> "reload", projects |-> projects, pools |-> pools]
  /\ UNCHANGED <<appFrame, bulkVars>>

\* The stored data of the import runs, and what is imported.
AppProject(nm, pl, wa) ==
  ProjectRec(nm, pl, 7, 13, "Development", wa, NoOverrides) @@ MoreFields("Ann", 40, 100)

AppPool(nm, lastModified) == PoolRec(nm, 40, 0, 0, 40) @@ [lastModified |-> lastModified]

\* The texts of the import box: not JSON; a project with name only; one
\* kept, one changed and one new project with a newer, a new and a missing
\* pool; one project of the two stored.
ImportTexts ==
  << NotJSON,
     JSONstringify([projects |-> <<[name |-> "P9"]>>, pools |-> <<>>]),
     JSONstringify([projects |-> <<AppProject("P1", "Dev", 50), AppProject("P2", "QA", 75),
                                   AppProject("P3", "Dev", 25)>>,
                    pools |-> <<AppPool("Dev", 300), AppPool("Ops", 300)>>]),
     JSONstringify([projects |-> <<AppProject("P2", "QA", 50)>>,
                    pools |-> <<AppPool("Dev", 100), AppPool("QA", 100)>>]) >>

CSVRow(nm, pl, wa) ==
  [name |-> nm, sponsor |-> "Ann", pool |-> pl, startDate |-> 7, targetDate |-> 13,
   estimatedHours |-> 40, status |-> "Development", weeklyAllocation |-> wa,
   lastModified |-> 0]

\* The files: one without a required column; one with a changed and a new
\* project and without the stored P2.
CSVFiles ==
  << CSVFile(FALSE, <<>>),
     CSVFile(TRUE, <<CSVRow("P1", "Dev", 80), CSVRow("P4", "QA", 20)>>) >>

\* What the project form submits.
SubmittedProjects == { AppProject("P5", "Dev", 10) }

InitApp ==
  /\ tz = 0
  /\ now = MondayNoon
  /\ CachesEmpty
  /\ pools = <<AppPool("Dev", 100), AppPool("QA", 100)>>
  /\ projects = <<AppProject("P1", "Dev", 50), AppProject("P2", "QA", 50)>>
  /\ last = NoResult
  /\ selectedWeekStart = NoWeek
  /\ selectedPool = ""
  /\ concurrentProjects = <<>>
  /\ formRev = "current"
  /\ form = initialForm
  /\ selectedWeekForAllocation = NoKey
  /\ weeklyAllocationInput = ""
  /\ overAllocationWarning = ""
  /\ errors = {}
  /\ selectedProjectIndex = NoIndex
  /\ showProjectForm = FALSE
  /\ ExtIdle

NextApp ==
  \/ OpenExportTab
  \/ OpenProjectsTab
  \/ \E idx \in 1..15 : handleSelectProject(idx)
  \/ handleNewProject
  \/ handleCancelProject
  \/ \E idx \in 1..MaxAppProjects : deleteProject(idx)
  \/ \E data \in SubmittedProjects : onSaveProject(data)
  \/ \E k \in DOMAIN ImportTexts : handleImport(ImportTexts[k])
  \/ \E k \in DOMAIN CSVFiles : handleCSVImport(CSVFiles[k])
  \/ handleConfirmImport
  \/ handleRevert
  \/ Reload

SpecApp == InitApp /\ [][NextApp]_vars

-----------------------------------------------------------------------------
(* The pool form: src/src/PoolForm.tsx *)

\* Number(v) of a field.
NumberOf(v) == IF v = NoText THEN 0 ELSE v.n

\* The length of String(v).
RECURSIVE DigitCount(_)
DigitCount(n) == IF n < 10 THEN 1 ELSE 1 + DigitCount(n \div 10)

StringLength(v) == IF v = NoText THEN 0 ELSE DigitCount(v.n)

RECURSIVE Pow10(_)
Pow10(k) == IF k = 0 THEN 1 ELSE 10 * Pow10(k - 1)

\* v || 0: 0 and '' give the number 0, any other value itself ('0' too).
OrZero(v) == IF v = NoText \/ v = Num(0) THEN Num(0) ELSE v

\* a + b: the sum of two numbers; with a string on either side the two are
\* written one after the other.
Plus(a, b) ==
  IF ~a.isString /\ ~b.isString THEN Num(a.n + b.n)
  ELSE Text(NumberOf(a) * Pow10(StringLength(b)) + NumberOf(b))

\* PoolForm.handleChange: weeklyHours is converted, every other field keeps
\* the text of the input.
PoolFormHandleChange(f, name, value) ==
  IF name = "name" THEN [f EXCEPT !.name = value]
  ELSE IF name = "weeklyHours" THEN [f EXCEPT !.weeklyHours = NumberOf(value)]
  ELSE [f EXCEPT ![name] = value]

\* PoolForm.validate: the names of the fields with an error.
PoolFormValidate(f) ==
  LET totalReserved == Plus(OrZero(f.supportHours), OrZero(f.meetingHours))
  IN  (IF f.name = "" THEN {"name"} ELSE {})
        \cup (IF f.weeklyHours = 0 \/ f.weeklyHours <= 0 THEN {"weeklyHours"} ELSE {})
        \cup (IF NumberOf(totalReserved) > f.weeklyHours
              THEN {"supportHours", "meetingHours"} ELSE {})

MaxPools == 1

poolFrame == <<tz, now, projects, bulkVars, formVars, mountVars, cacheVars, exportPanel,
               chartWorker>>

\* An input of the pool form changes.
poolHandleChange(name, value) ==
  /\ poolForm' = [poolForm EXCEPT !.form = PoolFormHandleChange(poolForm.form, name, value)]
  /\ UNCHANGED <<poolFrame, pools, localStorage, last>>

\* PoolForm.handleSubmit for a new pool: with no error App.handleSavePool
\* appends the form's data with the time of the save, and the form is reset.
poolHandleSubmit ==
  /\ Len(pools) < MaxPools
  /\ LET validationErrors == PoolFormValidate(poolForm.form)
     IN  /\ last' = [fn |-> "PoolForm.handleSubmit", form |-> poolForm.form,
                     accepted |-> validationErrors = {}]
         /\ IF validationErrors = {}
            THEN /\ pools' = Append(pools, poolForm.form @@ [lastModified |-> now])
                 /\ poolForm' = [form |-> poolInitialForm, errors |-> validationErrors]
            ELSE /\ pools' = pools
                 /\ poolForm' = [poolForm EXCEPT !.errors = validationErrors]
  /\ localStorage' = StorageOf(projects, pools')
  /\ UNCHANGED poolFrame

\* What is typed: names, and numbers of hours.
PoolNameInputs == {"", "Ops"}
PoolHourInputs == {NoText, Text(0), Text(20), Text(30)}

InitPool ==
  /\ tz = 0
  /\ now = MondayNoon
  /\ CachesEmpty
  /\ pools = <<>>
  /\ projects = <<>>
  /\ last = NoResult
  /\ selectedWeekStart = NoWeek
  /\ selectedPool = ""
  /\ concurrentProjects = <<>>
  /\ FormNotMounted
  /\ ExtIdle

NextPool ==
  \/ \E value \in PoolNameInputs : poolHandleChange("name", value)
  \/ \E name \in {"weeklyHours", "supportHours", "meetingHours"},
        value \in PoolHourInputs : poolHandleChange(name, value)
  \/ poolHandleChange("standardWeekHours", Text(35))
  \/ poolHandleSubmit

SpecPool == InitPool /\ [][NextPool]_vars

-----------------------------------------------------------------------------
(* Properties of the utilization functions *)

\* The pool the last request was about, when the pool list has it.
LastPoolKnown == last.fn # "none" /\ FindPool(pools, last.pool) # {}
LastPool == CHOOSE p \in FindPool(pools, last.pool) : TRUE

\* availableHours = weeklyHours - supportHours - meetingHours, in centi-hours.
AvailableCenti(pool) ==
  100 * (pool.weeklyHours - OrElse(pool.supportHours, 0) - OrElse(pool.meetingHours, 0))

\* The projects of the list that the week rule counts for a pool.
CountedInWeek(poolName, weekStart) ==
  LET Keep(p) == /\ p.pool = poolName
                 /\ ~includesComplete(toLowerCase(p.status))
                 /\ DateLE(ParseDate(p.startDate), WeekEndOf(weekStart))
                 /\ DateGE(ParseDate(p.targetDate), weekStart)
  IN  SelectSeq(projects, Keep)

\* The unrounded allocated total that the last request summed up.
LastUnroundedTotal ==
  IF last.fn = "calculatePoolUtilizationV1"
  THEN totalAllocatedV1(CountedInWeek(last.pool, last.week))
  ELSE totalAllocatedOf(CountedInWeek(last.pool, last.week), LastPool)

\* C1: every utilization result computed for an existing pool measures the
\* allocated hours against availableHours = weeklyHours - supportHours -
\* meetingHours: both the percentage and the over-allocation flag.
C1_MeasuredAgainstAvailable ==
  LastPoolKnown =>
    /\ last.res.utilization = Utilization(LastUnroundedTotal, AvailableCenti(LastPool))
    /\ last.res.isOverAllocated = (LastUnroundedTotal > AvailableCenti(LastPool))

\* C3: when availableHours of the pool is zero or negative, a utilization
\* computation reports the pool over-allocated and its percentage is a number,
\* never NaN or the quotient of a division by zero.
C3_NoAvailableHoursIsOverAllocated ==
  (LastPoolKnown /\ last.fn # "calculatePoolUtilizationV1"
     /\ AvailableCenti(LastPool) <= 0) =>
    /\ last.res.isOverAllocated
    /\ last.res.utilization.kind = "num"

\* The percentage the spec gives a project in a week: the override stored
\* under the week's key when there is one, the flat weeklyAllocation otherwise.
EffectiveAllocation(p, weekStart) ==
  IF WeekKey(weekStart) \in DOMAIN p.weeklyAllocations
  THEN p.weeklyAllocations[WeekKey(weekStart)]
  ELSE p.weeklyAllocation

\* C6: the allocated total of a week counts every project of the week with
\* its weeklyAllocations override for that week when it carries one.
C6_OverrideUsedInWeek ==
  (LastPoolKnown /\ last.fn # "calculatePoolUtilizationV1") =>
    LET Hours(p) == EffectiveAllocation(p, last.week)
                      * OrElse(LastPool.standardWeekHours, 40)
    IN  last.res.totalAllocated
          = Round1(SumSeq(MapSeq(CountedInWeek(last.pool, last.week), Hours)))

-----------------------------------------------------------------------------
(* Properties of the bulk-update form *)

SelectedPoolRec == CHOOSE p \in FindPool(pools, selectedPool) : TRUE

\* The allocated hours of the active rows, unrounded, in centi-hours.
BulkUnroundedTotal ==
  calculateTotalAllocation(concurrentProjects)
    * OrElse(SelectedPoolRec.standardWeekHours, 40)

\* C2: isOverAllocated says whether the unrounded allocated total exceeds the
\* unrounded available hours; the bulk form's flag, which disables Save, is
\* that comparison too.
C2_BulkComparesUnrounded ==
  TableShown =>
    ( BulkIsOverAllocated(selectedPool, concurrentProjects, pools)
        = (BulkUnroundedTotal > AvailableCenti(SelectedPoolRec)) )

\* C4: every Hours cell of the bulk form converts the row's percentage with
\* the pool's standardWeekHours (40 when the pool has none), and the cells
\* sum to the totalAllocated the form reports.
C4_HoursUseStandardWeek ==
  TableShown =>
    /\ \A i \in 1..Len(concurrentProjects) :
          concurrentProjects[i].isActive =>
            HoursCell(concurrentProjects[i])
              = Round1(concurrentProjects[i].newAllocation
                         * OrElse(SelectedPoolRec.standardWeekHours, 40))
    /\ SumSeq(MapSeq(concurrentProjects, HoursCell))
          = getPoolUtilization(selectedPool, concurrentProjects, pools).totalAllocated

\* The week the bulk form works on.
BulkWeekStart == getCurrentWeekDates(selectedWeekStart, now).startOfWeek

\* C8: the rows of the bulk form are the projects of the pool that the week
\* rule counts: not complete, startDate on or before weekStart + 6 days,
\* targetDate on or after weekStart, both dates set and parseable; the same
\* projects as the chart and the worker count.
C8_BulkCountsByWeekRule ==
  selectedPool # "" =>
    LET NameOf(r) == r.name
    IN  MapSeq(concurrentProjects, NameOf)
          = MapSeq(CountedInWeek(selectedPool, BulkWeekStart), NameOf)

\* The percentages of the active rows of a table.
ActivePcts(rows) ==
  LET Active(cp) == cp.isActive
      Pct(cp) == cp.newAllocation
  IN  MapSeq(SelectSeq(rows, Active), Pct)

\* C9: Distribute Evenly leaves the N >= 1 active rows with percentages that
\* sum to exactly 100 and differ by at most 1, wherever the inactive rows
\* stand in the table; with no active row it changes nothing.
C9_DistributeEvenlySumsTo100 ==
  [][ handleDistributeEvenly =>
        LET pcts == ActivePcts(concurrentProjects')
        IN  IF pcts = <<>> THEN concurrentProjects' = concurrentProjects
            ELSE /\ SumSeq(pcts) = 100
                 /\ \A i, j \in 1..Len(pcts) : pcts[i] - pcts[j] <= 1 ]_vars

-----------------------------------------------------------------------------
(* Properties of the project form *)

\* The hours, in centi-hours, that the pool's other projects add to the
\* form's project when every project whose status contains "complete" in any
\* letter case counts for nothing.
OtherNonCompleteHours ==
  LET Counts(p) == /\ p.pool = form.pool
                   /\ p.name # form.name
                   /\ ~includesComplete(toLowerCase(p.status))
      Hours(p)  == OrElse(p.weeklyAllocation, 0) * FormStandardWeek(form, pools)
  IN  SumSeq(MapSeq(SelectSeq(projects, Counts), Hours))

\* C5: the total the over-allocation advisory reports is the form's own
\* hours plus the hours of the pool's other projects, a project whose status
\* contains "complete" in any letter case contributing 0 hours.
C5_CompleteContributesNothing ==
  overAllocationWarning # NoWarning =>
    overAllocationWarning.totalAllocation
      = form.weeklyAllocation * FormStandardWeek(form, pools) + OtherNonCompleteHours

\* The effective weekly allocation the spec gives the project in the week
\* stored under weekKey.
effectiveWeeklyAllocation(project, weekKey) ==
  IF includesComplete(toLowerCase(project.status)) THEN 0
  ELSE IF weekKey \in DOMAIN project.weeklyAllocations
       THEN project.weeklyAllocations[weekKey]
       ELSE OrElse(project.weeklyAllocation, 0)

\* C7: the allocation the form looks up for a week it selects is 0 when the
\* project's status contains "complete" in any letter case, otherwise the
\* week's override when there is one, otherwise weeklyAllocation.
C7_CompleteProjectHasNoAllocation ==
  [][\A k \in AvailableWeekKeys(form) :
       (setSelectedWeekForAllocation(k) /\ k # selectedWeekForAllocation)
         => weeklyAllocationInput' = NumberToString(effectiveWeeklyAllocation(form, k))]_vars

\* The date string n weekdays after (step = 1) or before (step = -1) the
\* date string day, Saturdays and Sundays skipped; day 0 is a Sunday.
RECURSIVE MoveWeekdays(_, _, _)
MoveWeekdays(day, n, step) ==
  IF n <= 0 THEN day
  ELSE IF (day + step) % 7 \in {0, 6}
       THEN MoveWeekdays(day + step, n, step)
       ELSE MoveWeekdays(day + step, n - 1, step)

\* ceil(5 * estimatedHours / ((weeklyAllocation / 100) * (standardWeekHours or 40)))
RequiredWeekdays(f) ==
  CeilDiv(5 * 100 * f.estimatedHours, f.weeklyAllocation * FormStandardWeek(f, pools))

CanDerive(f) == f.estimatedHours > 0 /\ f.weeklyAllocation > 0

\* C10: every date derivation of the project form (a start date entered with
\* the target empty, a target date entered with the start empty, a changed
\* weekly allocation, Recalc on either label) moves the required number of
\* weekdays from the known date, skipping Saturdays and Sundays.
C10_DerivationMovesRequiredWeekdays ==
  [][/\ \A v \in DateInputs \ {EmptyDate} :
          (handleChange("startDate", v) /\ form.targetDate = EmptyDate /\ CanDerive(form))
            => form'.targetDate = MoveWeekdays(v, RequiredWeekdays(form'), 1)
     /\ \A v \in DateInputs \ {EmptyDate} :
          (handleChange("targetDate", v) /\ form.startDate = EmptyDate /\ CanDerive(form))
            => form'.startDate = MoveWeekdays(v, RequiredWeekdays(form'), 0 - 1)
     /\ \A v \in PercentInputs \ {0} :
          (/\ handleChange("weeklyAllocation", v) /\ formRev = "current"
           /\ form.startDate # EmptyDate /\ form.estimatedHours > 0)
            => form'.targetDate = MoveWeekdays(form.startDate, RequiredWeekdays(form'), 1)
     /\ RecalcStart
          => form'.startDate = MoveWeekdays(form.targetDate, RequiredWeekdays(form), 0 - 1)
     /\ RecalcTarget
          => form'.targetDate = MoveWeekdays(form.startDate, RequiredWeekdays(form), 1)]_vars

\* The target date the form derives from its start date with its hours and
\* allocation.
DerivedTarget(f) ==
  LET days == IF formRev = "current"
              THEN workDaysNeeded(f.estimatedHours, f.weeklyAllocation,
                                  FormStandardWeek(f, pools))
              ELSE workDaysNeededV1(f.estimatedHours, f.weeklyAllocation,
                                    FormStandardWeek(f, pools))
  IN  ISODate(addWorkDays(ParseDate(f.startDate), days))

\* The form holds a target date derived from its start date.
TargetWasDerived ==
  /\ CanDerive(form) /\ form.startDate # EmptyDate
  /\ form.targetDate = DerivedTarget(form)

\* The start date is a Monday..Friday for getDay.
StartsOnWeekday == getDay(ParseDate(form.startDate)) \in 1..5

C12_AutoDerivedFlag ==
  [][formRev = "current" =>
       /\ \A v \in PercentInputs \ {0} :
            (/\ handleChange("weeklyAllocation", v)
             /\ form.startDate # EmptyDate /\ form.estimatedHours > 0)
              => /\ form'.targetDate = DerivedTarget(form')
                 /\ form'.autoRecalculated = TRUE
       /\ \A v \in DateInputs :
            handleChange("targetDate", v) => form'.autoRecalculated = FALSE]_vars

\* The severity the spec gives the advisory of the form, "none" for no advisory.
ExpectedSeverity ==
  LET pool  == CHOOSE q \in FindPool(pools, form.pool) : TRUE
      total == form.weeklyAllocation * FormStandardWeek(form, pools) + OtherNonCompleteHours
  IN  IF form.status # "Development" /\ form.status # "Testing" THEN "none"
      ELSE IF total > AvailableCenti(pool) THEN "high"
      ELSE IF 100 * total > 80 * AvailableCenti(pool) THEN "medium"
      ELSE "none"

\* C13: for a form with a known pool and a positive allocation, the advisory
\* shown is none when the form's status is neither Development nor Testing,
\* otherwise high, medium or none by the total of the pool's other
\* non-complete projects and this project against the available hours.
C13_AdvisoryFollowsCurrentStatus ==
  (form.weeklyAllocation > 0 /\ FindPool(pools, form.pool) # {})
    => overAllocationWarning.severity = ExpectedSeverity

-----------------------------------------------------------------------------
(* Properties of the week buckets *)

WeekHours == 7 * HoursPerDay

\* C14: for min <= max the week starts are 7 days apart in ascending order,
\* each a Sunday at midnight; the first is the one a week before the week
\* start of min, the last the greatest of them not after max.
C14_WeekStartsOfARange ==
  (last.fn = "getAllWeekStarts" /\ last.min <= last.max) =>
    LET w == last.res
    IN  /\ Len(w) >= 1
        /\ \A i \in 1..Len(w) : getDay(w[i]) = 0 /\ (w[i] + tz) % HoursPerDay = 0
        /\ \A i \in 1..(Len(w) - 1) : w[i + 1] = w[i] + WeekHours
        /\ w[1] + WeekHours <= last.min /\ last.min < w[1] + 2 * WeekHours
        /\ w[Len(w)] <= last.max /\ last.max < w[Len(w)] + WeekHours

\* A range of more than a week, from a min that is not itself a week start.
C14_Witness ==
  /\ last.fn = "getAllWeekStarts" /\ last.min + WeekHours < last.max
  /\ getWeekStart(last.min) # last.min
  /\ Len(last.res) >= 3

\* C15: for min > max the list of week starts is empty.
C15_EmptyWhenMinAfterMax ==
  (last.fn = "getAllWeekStarts" /\ last.min > last.max) => last.res = <<>>

-----------------------------------------------------------------------------
(* Properties of the work-day count *)

\* The calendar day of an instant in the browser's zone.
LocalDay(t) == (t + tz) \div HoursPerDay

BothDatesSet == form.startDate # EmptyDate /\ form.targetDate # EmptyDate

-----------------------------------------------------------------------------
(* Properties of submitting the project form *)

\* Every field but the order of the two dates passes validation.
ValidButForDateOrder ==
  /\ form.name # "" /\ form.pool # ""
  /\ form.estimatedHours > 0 /\ form.weeklyAllocation > 0

\* C17: a form whose start date is after its target date, every other field
\* being valid, shows the date-order warning and is still saved with both
\* dates when it is submitted.
C17_DateOrderIsAdvisoryOnly ==
  [][(handleSubmit /\ dateOrderIssueShown(form) /\ ValidButForDateOrder)
       => \E i \in DOMAIN projects' :
            /\ projects'[i].startDate = form.startDate
            /\ projects'[i].targetDate = form.targetDate]_vars

-----------------------------------------------------------------------------
(* Properties of a project whose pool is not in the pool list *)

\* C18: while the form's pool name matches no pool of the list, the
\* over-allocation advisory and the duration estimate are skipped: both are
\* null.
C18_UnknownPoolSkipsCalculations ==
  (showProjectForm /\ form.pool # "" /\ FindPool(pools, form.pool) = {}) =>
    /\ overAllocationWarning = NoWarning
    /\ calculatedDuration(form, pools) = NoDuration


-----------------------------------------------------------------------------
(* Property of the caches *)

\* The same render computed with no cache at all.
UncachedRender(r) ==
  IF r.component = "GanttChart"
  THEN Shown(GanttChartRender({}, r.projects, r.pools, now))
  ELSE Shown(BulkUpdateFormRender({}, r.selectedPool, r.rows, r.pools))

\* C19: in every render the cached calculatePoolUtilization of the chart and
\* the cached getPoolUtilization of the bulk update form return exactly what
\* the uncached computation returns for the projects, pools and rows of that
\* render, whatever changes, renders, cache-clearing effects and lapses of
\* time came before.
C19_CachedEqualsUncached ==
  last.fn = "render" =>
    \A i \in DOMAIN last.renders : last.renders[i] = UncachedRender(last.renders[i])


-----------------------------------------------------------------------------
(* Property of the future warnings *)

\* The loop indices of the weeks after currentWeekIdx, four at most.
FollowingWeeks(weekStarts, currentWeekIdx) ==
  {i \in 0..(Len(weekStarts) - 1) : i > currentWeekIdx /\ i <= currentWeekIdx + 4}

\* The pool is over-allocated in the week: the active projects of the pool
\* that overlap the week take more than the pool's available hours.
OverAllocatedInWeek(pool, weekStart) ==
  LET Counts(p) == /\ p.pool = pool.name
                   /\ ~includesComplete(toLowerCase(p.status))
                   /\ DateLE(ParseDate(p.startDate), weekStart + 6 * HoursPerDay)
                   /\ DateGE(ParseDate(p.targetDate), weekStart)
      Hours(p) == p.weeklyAllocation * OrElse(pool.standardWeekHours, 40)
      total == SumSeq(MapSeq(SelectSeq(projects, Counts), Hours))
  IN  total > 100 * (pool.weeklyHours - pool.supportHours - pool.meetingHours)

\* The (week index, pool index) pairs a warning is due for, in the order of
\* the loops.
DuePairs(weekStarts, currentWeekIdx) ==
  {pair \in FollowingWeeks(weekStarts, currentWeekIdx) \X (1..Len(pools)) :
     OverAllocatedInWeek(pools[pair[2]], weekStarts[pair[1] + 1])}

\* C20: for the same projects, pools, week starts and current week index the
\* worker's FUTURE_WARNINGS answer is the same sequence of (pool, week,
\* utilization) warnings as the main-thread getFutureOverAllocationWarnings,
\* and it holds exactly the over-allocated (pool, week) pairs among the at
\* most four weeks that follow the current week index.
C20_WorkerWarningsSameAsMainThread ==
  last.fn = "FUTURE_WARNINGS" =>
    LET due == DuePairs(last.weekStarts, last.currentWeekIdx)
    IN  /\ last.worker = last.main
        /\ Len(last.main) = Cardinality(due)
        /\ \A pair \in due :
              \E k \in 1..Len(last.main) :
                 /\ last.main[k].poolName = pools[pair[2]].name
                 /\ last.main[k].weekStart = last.weekStarts[pair[1] + 1]
        /\ \A k \in 1..Len(last.main) : last.main[k].utilization.isOverAllocated

\* A request whose list goes on past the four following weeks, with a pool
\* over-allocated both within them and after them, and a warning returned.
C20_Witness ==
  /\ last.fn = "FUTURE_WARNINGS"
  /\ Len(last.weekStarts) > last.currentWeekIdx + 5
  /\ last.worker # <<>>
  /\ \E i \in 1..Len(last.weekStarts) :
        /\ i - 1 > last.currentWeekIdx + 4
        /\ \E p \in 1..Len(pools) : OverAllocatedInWeek(pools[p], last.weekStarts[i])

-----------------------------------------------------------------------------
(* Persistence and import *)

\* C21: after any sequence of additions, edits, deletions and imports
\* followed by a reload of the page, the projects and pools loaded on mount
\* equal the projects and pools as they were just before the reload.
C21_ReloadRestoresData ==
  [][Reload => projects' = projects /\ pools' = pools]_vars

\* An import step of the export panel: Import Data with some text, or a CSV
\* file chosen.
ImportStep ==
  \/ \E k \in DOMAIN ImportTexts : handleImport(ImportTexts[k])
  \/ \E k \in DOMAIN CSVFiles : handleCSVImport(CSVFiles[k])

\* C22: Import Data and the choice of a CSV file never change the stored
\* projects or pools by themselves, whether the input is valid or not; while
\* the export panel is open the stored data changes only by Confirm Import
\* or Revert.
C22_ImportAloneKeepsStoredData ==
  [][ /\ ImportStep => UNCHANGED <<projects, pools, localStorage>>
      /\ exportPanel.mounted /\ exportPanel'.mounted
           /\ <<projects, pools, localStorage>>' # <<projects, pools, localStorage>>
           => last'.fn \in {"handleConfirmImport", "handleRevert"} ]_vars

\* A valid text has been imported, the summary is shown, the merged data
\* waiting for the confirmation differs from the stored data, and the stored
\* data is still what it was.
C22_Witness ==
  /\ last.fn = "handleImport" /\ last.valid
  /\ exportPanel.showConflictSummary
  /\ exportPanel.pendingImport # <<>>
  /\ exportPanel.pendingImport[1].projects # projects
  /\ projects = last.projects /\ pools = last.pools
  /\ localStorage = StorageOf(last.projects, last.pools)

\* A JSON import has been confirmed and applied, and the panel has stayed
\* open since.
JSONImportApplied ==
  /\ last.fn = "handleConfirmImport" /\ last.of = "handleImport"
  /\ exportPanel.mounted /\ exportPanel.importApplied

\* C23: after a JSON import has been confirmed and applied, the Revert to
\* Previous State button is there, and what it restores is the backup taken
\* when Import Data was clicked.
C23_RevertAvailableAfterConfirm ==
  JSONImportApplied =>
    /\ RevertShown(exportPanel)
    /\ handleRevertOutcome(exportPanel).onImport = exportPanel.backupData

\* The summary of an import that passed its checks is on the screen.
SummaryOf(fn) ==
  /\ last.fn = fn /\ last.valid
  /\ exportPanel.showConflictSummary

\* The projects an import brought: of the text, or of the rows of the file.
ImportedProjects ==
  IF last.fn = "handleImport" THEN JSONparse(last.text).projects
  ELSE LET Convert(row) == csvProject(row, now) IN MapSeq(last.file.rows, Convert)

\* What the summary should say about the project of a name.
ExpectedAction(name) ==
  LET stored   == FindIndexByName(last.projects, name)
      imported == FindIndexByName(ImportedProjects, name)
  IN  IF stored = 0 THEN "added"
      ELSE IF imported = 0 THEN "deleted"
      ELSE IF isIdentical(last.projects[stored], ImportedProjects[imported]) THEN "kept"
      ELSE "updated"

\* The entries of the summary for the thing of a type and a name.
EntriesOf(type, name) ==
  {k \in 1..Len(exportPanel.conflictResults) :
     /\ exportPanel.conflictResults[k].type = type
     /\ exportPanel.conflictResults[k].name = name}

\* C24: for every import, pasted JSON or CSV file, the summary classifies
\* each project by comparing the imported data with the stored projects:
\* added iff its name is only in the import, deleted iff only in the stored
\* data, kept iff in both with identical fields, updated iff in both with
\* differing fields.
C24_SummaryComparesWithStored ==
  SummaryOf("handleImport") \/ SummaryOf("handleCSVImport") =>
    \A name \in NamesOf(last.projects) \cup NamesOf(ImportedProjects) :
       /\ EntriesOf("project", name) # {}
       /\ \A k \in EntriesOf("project", name) :
             exportPanel.conflictResults[k].action = ExpectedAction(name)

\* C30: the summary of a JSON import has exactly one entry for each project
\* name and one for each pool name of the stored and the imported data
\* together, so its counts add up to the number of names involved.
C30_OneEntryPerName ==
  SummaryOf("handleImport") =>
    LET projectNames == NamesOf(last.projects) \cup NamesOf(JSONparse(last.text).projects)
        poolNames    == NamesOf(last.pools) \cup NamesOf(JSONparse(last.text).pools)
    IN  /\ \A name \in projectNames : Cardinality(EntriesOf("project", name)) = 1
        /\ \A name \in poolNames : Cardinality(EntriesOf("pool", name)) = 1
        /\ Len(exportPanel.conflictResults)
             = Cardinality(projectNames) + Cardinality(poolNames)

\* The project of a list that a submitted form has become: the data with
\* the stamp of the save.
SavedIn(projs, data) ==
  \E i \in 1..Len(projs) : projs[i] = [data EXCEPT !.lastModified = now]

\* C25: after any sequence of select, new, save, cancel, delete and
\* confirmed import, selectedProjectIndex is null or the index of a project
\* of the list; so a submitted project replaces the selected one or is
\* appended, and is never dropped.
C25_SelectedIndexIsValid ==
  [][ /\ selectedProjectIndex' = NoIndex \/ selectedProjectIndex' \in 1..Len(projects')
      /\ \A data \in SubmittedProjects : onSaveProject(data) => SavedIn(projects', data)
    ]_vars

-----------------------------------------------------------------------------
(* The exchange with the worker *)

\* C26: with projects and pools unchanged, an answer of the worker never
\* makes the chart post a further FUTURE_WARNINGS request, so the requests
\* are bounded in number and the exchange comes to rest.
C26_ResponseTriggersNoRequest ==
  [][ \A batched \in BOOLEAN :
        FutureWarningsResult(batched) => chartWorker'.posted = chartWorker.posted ]_vars

-----------------------------------------------------------------------------
(* The frame of a bulk save *)

\* The projects listed as concurrent: those of the selected pool that are
\* active and overlap the selected week.
ListedAsConcurrent(projs, selPool, selWeekStart, today) ==
  LET week == getCurrentWeekDates(selWeekStart, today)
      processed == processedProjects(projs)
  IN  {i \in 1..Len(projs) :
         /\ processed[i].pool = selPool
         /\ DateLE(processed[i].startDate, week.endOfWeek)
         /\ DateGE(processed[i].endDate, week.startOfWeek)
         /\ processed[i].isActive}

\* C27: a bulk Save changes only the weeklyAllocation of the projects
\* listed as concurrent for the selected pool and week; every other project
\* and every other field of every project reaches the stored list unchanged.
C27_BulkSaveChangesOnlyListed ==
  [][ handleBulkUpdateSave =>
        /\ Len(projects') = Len(projects)
        /\ \A i \in 1..Len(projects) :
              IF i \in ListedAsConcurrent(projects, selectedPool, selectedWeekStart, now)
              THEN [projects'[i] EXCEPT !.weeklyAllocation = projects[i].weeklyAllocation]
                     = projects[i]
              ELSE projects'[i] = projects[i] ]_vars

-----------------------------------------------------------------------------
(* The pool form's validation *)

\* C28: whatever was typed, the form accepts the pool on submit exactly
\* when the name is not empty, weeklyHours > 0 and the sum of the numbers
\* supportHours and meetingHours is at most weeklyHours; so every pool
\* saved through the form has availableHours >= 0.
C28_PoolAcceptedIffNumbersFit ==
  /\ last.fn = "PoolForm.handleSubmit" =>
       (last.accepted <=>
          /\ last.form.name # ""
          /\ last.form.weeklyHours > 0
          /\ NumberOf(last.form.supportHours) + NumberOf(last.form.meetingHours)
               <= last.form.weeklyHours)
  /\ \A i \in 1..Len(pools) :
        pools[i].weeklyHours - NumberOf(pools[i].supportHours)
          - NumberOf(pools[i].meetingHours) >= 0

-----------------------------------------------------------------------------
(* The auto-calculated badge *)

\* C29: in the project form, whenever the auto-recalculated flag is true,
\* targetDate is the date derived from the form's present startDate,
\* estimatedHours, weeklyAllocation and the standard week of its pool, after
\* any sequence of edits and Recalc clicks.
C29_FlagMeansDerivedTarget ==
  formRev = "current" /\ form.autoRecalculated =>
    /\ form.startDate # EmptyDate
    /\ form.estimatedHours > 0 /\ form.weeklyAllocation > 0
    /\ form.targetDate = DerivedTarget(form)

====
